---- MODULE Spec2Model ----
(***************************************************************************)
(* Verification model of the universal ingestion endpoint                  *)
(* (/api/ingest_universal.js, the version with tier detection and keyword  *)
(* classification).                                                        *)
(*                                                                         *)
(* Text is modelled as sequences of one-character strings, so that the     *)
(* regular expressions and string methods of the source are computed       *)
(* character by character.  JavaScript null/undefined text is the          *)
(* one-element sequence null, which is not a sequence of characters.       *)
(* Numbers with a fractional part (confidence) are integers in hundredths. *)
(***************************************************************************)
EXTENDS Integers, Sequences, FiniteSets, TLC

\* ------------------------------------------------------------------------
\* Characters and strings
\* ------------------------------------------------------------------------

LowerAlpha == <<"a","b","c","d","e","f","g","h","i","j","k","l","m",
                "n","o","p","q","r","s","t","u","v","w","x","y","z">>
UpperAlpha == <<"A","B","C","D","E","F","G","H","I","J","K","L","M",
                "N","O","P","Q","R","S","T","U","V","W","X","Y","Z">>
DigitChars == {"0","1","2","3","4","5","6","7","8","9"}

\* JavaScript null / undefined in a text-valued position
null == <<"null">>

\* \s of the regular expressions, and the characters String.trim removes
IsSpace(c) == c \in {" ", "\n", "\t", "\r"}

\* \w of the regular expressions (used by \b)
IsWordChar(c) ==
    \/ \E i \in 1..26 : c = LowerAlpha[i] \/ c = UpperAlpha[i]
    \/ c \in DigitChars
    \/ c = "_"

upperChar(c) ==
    IF \E i \in 1..26 : LowerAlpha[i] = c
    THEN UpperAlpha[CHOOSE i \in 1..26 : LowerAlpha[i] = c]
    ELSE c

lowerChar(c) ==
    IF \E i \in 1..26 : UpperAlpha[i] = c
    THEN LowerAlpha[CHOOSE i \in 1..26 : UpperAlpha[i] = c]
    ELSE c

toUpperCase(str) == [i \in 1..Len(str) |-> upperChar(str[i])]
toLowerCase(str) == [i \in 1..Len(str) |-> lowerChar(str[i])]

RECURSIVE trimStart(_)
trimStart(str) ==
    IF str # <<>> /\ IsSpace(Head(str)) THEN trimStart(Tail(str)) ELSE str

RECURSIVE trimEnd(_)
trimEnd(str) ==
    IF str # <<>> /\ IsSpace(str[Len(str)])
    THEN trimEnd(SubSeq(str, 1, Len(str) - 1))
    ELSE str

trim(str) == trimEnd(trimStart(str))

\* the word w occurs in str at position i
IsAt(str, i, w) ==
    /\ i >= 1
    /\ i + Len(w) - 1 <= Len(str)
    /\ SubSeq(str, i, i + Len(w) - 1) = w

startsWith(str, w) == IsAt(str, 1, w)

\* JavaScript truthiness of a text value: null, undefined and "" are falsy
Truthy(v) == v # null /\ v # <<>>

\* const s = (v) => (typeof v === "string" ? v.trim() : v)
s(v) == IF v = null THEN v ELSE trim(v)

\* ------------------------------------------------------------------------
\* Words of the source and of the inputs
\* ------------------------------------------------------------------------

W_QUESTION  == <<"Q","U","E","S","T","I","O","N">>
W_ANSWER    == <<"A","N","S","W","E","R">>
W_HARBOURC  == <<"H","A","R","B","O","U","R",":">>
W_WEATHERC  == <<"W","E","A","T","H","E","R",":">>
W_MEDIAC    == <<"M","E","D","I","A",":">>
W_QUESTIONC == W_QUESTION \o <<":">>
W_TIERC     == <<"T","I","E","R",":">>
W_FREE      == <<"F","R","E","E">>
W_PRO       == <<"P","R","O">>
W_EXCLUSIVE == <<"E","X","C","L","U","S","I","V","E">>

\* ------------------------------------------------------------------------
\* sentenceCount
\* ------------------------------------------------------------------------

IsTerminal(c) == c \in {".", "!", "?"}

\* trimmed.match(/[.!?]\s/g): a match is two characters long and its second
\* character is whitespace, so matches never overlap
sentenceMatches(trimmed) ==
    Cardinality({i \in 1..(Len(trimmed) - 1) :
                    IsTerminal(trimmed[i]) /\ IsSpace(trimmed[i + 1])})

\* the count without the test for punctuation at the end of the text
sentenceCountNoEnd(text) ==
    LET trimmed == s(text)
    IN  IF ~Truthy(trimmed) THEN 0
        ELSE sentenceMatches(trimmed)

sentenceCount(text) ==
    LET trimmed == s(text)
    IN  IF ~Truthy(trimmed) THEN 0
        ELSE sentenceMatches(trimmed)
             + (IF IsTerminal(trimmed[Len(trimmed)]) THEN 1 ELSE 0)

\* ------------------------------------------------------------------------
\* Table type detection
\* ------------------------------------------------------------------------

T_QNA     == "harbour_questions"
T_HARBOUR == "harbours"
T_WEATHER == "harbour_weather_profiles"
T_MEDIA   == "harbour_media"
ShapeTables == {T_QNA, T_HARBOUR, T_WEATHER, T_MEDIA}

\* parseFloat of something that is not a number
NaN == -1

\* if (detection.confidence < 0.90), in hundredths
MinConfidence == 90

\* a < b on JavaScript numbers: false whenever NaN is involved
NumLess(a, b) == a # NaN /\ b # NaN /\ a < b

\* the confidence gate: detection.confidence < 0.90
\* the gate with its threshold one hundredth lower
lowConfidenceBelow89(confidence) == NumLess(confidence, MinConfidence - 1)

lowConfidence(confidence) == NumLess(confidence, MinConfidence)

NoDetection == [table |-> "none", confidence |-> 0, method |-> "none",
                reasoning |-> null]

\* /\bQUESTION\s*[:.]?\s*/i.test(transcript): everything after the word is
\* optional, so the test succeeds exactly when the word occurs (in any
\* letter case) right after a word boundary
\* the keyword test without the i flag
hasKeywordCaseSensitive(transcript, word) ==
    \E i \in 1..Len(transcript) :
        /\ IsAt(transcript, i, word)
        /\ (i = 1 \/ ~IsWordChar(transcript[i - 1]))

hasKeyword(transcript, word) ==
    \E i \in 1..Len(transcript) :
        /\ IsAt(toUpperCase(transcript), i, word)
        /\ (i = 1 \/ ~IsWordChar(transcript[i - 1]))

detectTableTypeByPrefix(transcript) ==
    LET upper == toUpperCase(trim(transcript))
    IN  IF startsWith(upper, W_HARBOURC)
        THEN [table |-> T_HARBOUR, confidence |-> 100, method |-> "prefix",
              reasoning |-> null]
        ELSE IF startsWith(upper, W_WEATHERC)
        THEN [table |-> T_WEATHER, confidence |-> 100, method |-> "prefix",
              reasoning |-> null]
        ELSE IF startsWith(upper, W_MEDIAC)
        THEN [table |-> T_MEDIA, confidence |-> 100, method |-> "prefix",
              reasoning |-> null]
        ELSE IF hasKeyword(transcript, W_QUESTION)
                /\ hasKeyword(transcript, W_ANSWER)
        THEN [table |-> T_QNA, confidence |-> 99, method |-> "keyword",
              reasoning |-> null]
        ELSE NoDetection

\* ------------------------------------------------------------------------
\* Tier detection
\* ------------------------------------------------------------------------

RECURSIVE skipWhile(_, _, _)
\* the first position at or after i whose character is not consumed by a
\* greedy character-class star (the class given as the set of its characters)
skipWhile(str, i, class) ==
    IF i <= Len(str) /\ str[i] \in class
    THEN skipWhile(str, i + 1, class)
    ELSE i

SpaceChars == {" ", "\n", "\t", "\r"}

\* /^TIER:\s*(FREE|PRO|EXCLUSIVE)[.\s]*/i : none of the three words begins
\* with whitespace, so \s* takes the whole run of whitespace; the
\* alternatives are tried in order.  The result is the matched tier word
\* and the position after the match, or <<>> when there is no match.
tierMatch(transcript) ==
    LET up == toUpperCase(transcript)
        j  == skipWhile(transcript, Len(W_TIERC) + 1, SpaceChars)
        w  == IF IsAt(up, j, W_FREE) THEN W_FREE
              ELSE IF IsAt(up, j, W_PRO) THEN W_PRO
              ELSE IF IsAt(up, j, W_EXCLUSIVE) THEN W_EXCLUSIVE
              ELSE <<>>
    IN  IF startsWith(up, W_TIERC) /\ w # <<>>
        THEN <<w, skipWhile(transcript, j + Len(w), SpaceChars \cup {"."})>>
        ELSE <<>>

\* the regular expression without its i flag
detectTierCaseSensitive(transcript) ==
    LET m == tierMatch(transcript)
    IN  IF m # <<>> /\ toUpperCase(SubSeq(transcript, 1, m[2] - 1))
                          = SubSeq(transcript, 1, m[2] - 1)
        THEN [tier |-> toLowerCase(m[1]),
              cleanedTranscript |->
                  trim(SubSeq(transcript, m[2], Len(transcript)))]
        ELSE [tier |-> toLowerCase(W_PRO), cleanedTranscript |-> transcript]

detectTier(transcript) ==
    LET m == tierMatch(transcript)
    IN  IF m # <<>>
        THEN [tier |-> toLowerCase(m[1]),
              cleanedTranscript |->
                  trim(SubSeq(transcript, m[2], Len(transcript)))]
        ELSE [tier |-> toLowerCase(W_PRO), cleanedTranscript |-> transcript]

\* ------------------------------------------------------------------------
\* Cleaned records: the JSON object the Cleaner returned, a record whose
\* domain is the set of keys present in the object
\* ------------------------------------------------------------------------

\* an absent / null number and an absent / null identifier
nullNum == -999
nullId == 0

Has(obj, k) == k \in DOMAIN obj
\* obj.k for a text, a number, an array and an object valued key
Text(obj, k) == IF Has(obj, k) THEN obj[k] ELSE null
Num(obj, k)  == IF Has(obj, k) THEN obj[k] ELSE nullNum
Arr(obj, k)  == IF Has(obj, k) THEN obj[k] ELSE <<>>
Sub(obj, k)  == IF Has(obj, k) THEN obj[k] ELSE <<>>

L_FREE == toLowerCase(W_FREE)
L_PRO == toLowerCase(W_PRO)
L_EXCLUSIVE == toLowerCase(W_EXCLUSIVE)
TierEnum == {L_FREE, L_PRO, L_EXCLUSIVE}
WindEnum == {"n", "ne", "e", "se", "s", "sw", "w", "nw"}

\* the key of the cleaned record that names the harbour (handler, STEP 5)
harbourFieldName(tableType) ==
    IF tableType = T_QNA THEN "harbour" ELSE "harbour_name"

\* ------------------------------------------------------------------------
\* Schema validators.  The schema files (schemas/*_schema_v1.json) are not
\* part of the sources; the validators follow the description of the
\* Schema Validator: required fields present, types correct, enumerations
\* restricted to their lowercase values, no undeclared property.  The
\* declared keys are those of the cleaning prompts (and the harbour_name
\* the handler reads from weather and media records); the required keys
\* are the scalar keys the column transformer reads without a default,
\* and the tier of a Q&A record.  The result is the violation list
\* (validate.errors), empty when the record passes.
\* ------------------------------------------------------------------------

DeclaredKeys(tableType) ==
    CASE tableType = T_QNA ->
           {"harbour", "question", "answer", "category", "tags", "tier",
            "notes"}
      [] tableType = T_HARBOUR ->
           {"name", "region", "coordinates", "depth_range", "facilities",
            "mooring_info", "approach_info", "shelter_info", "hazards",
            "holding", "seabed", "atmosphere", "best_arrival",
            "crowding_risk", "notes"}
      [] tableType = T_WEATHER ->
           {"harbour_name", "wind_directions", "safety_summary",
            "holding_quality", "surge_notes", "depth_notes",
            "fallback_options", "mooring_difficulty", "safe_wind_knots",
            "caution_wind_knots", "unsafe_wind_knots"}
      [] tableType = T_MEDIA ->
           {"harbour_name", "media_type", "url", "description", "tier"}

RequiredKeys(tableType) ==
    CASE tableType = T_QNA ->
           {"harbour", "question", "answer", "category", "tier"}
      [] tableType = T_HARBOUR -> {"name"}
      [] tableType = T_WEATHER -> {}
      [] tableType = T_MEDIA -> {"media_type", "url"}

Violation(cond, name) == IF cond THEN <<name>> ELSE <<>>

\* the violation list of a validator whose schema leaves the tier open
schemaErrorsTierOpen(tableType, cleaned) ==
       Violation(~(RequiredKeys(tableType) \subseteq DOMAIN cleaned),
                 "required")
    \o Violation(\E k \in RequiredKeys(tableType) \cap DOMAIN cleaned :
                     cleaned[k] = null,
                 "type")
    \o Violation(~(DOMAIN cleaned \subseteq DeclaredKeys(tableType)),
                 "additionalProperties")

schemaErrors(tableType, cleaned) ==
       Violation(~(RequiredKeys(tableType) \subseteq DOMAIN cleaned),
                 "required")
    \o Violation(\E k \in RequiredKeys(tableType) \cap DOMAIN cleaned :
                     cleaned[k] = null,
                 "type")
    \o Violation(~(DOMAIN cleaned \subseteq DeclaredKeys(tableType)),
                 "additionalProperties")
    \o Violation(/\ tableType \in {T_QNA, T_MEDIA}
                 /\ Has(cleaned, "tier")
                 /\ cleaned.tier \notin TierEnum,
                 "enum:tier")
    \o Violation(/\ tableType = T_HARBOUR
                 /\ Has(cleaned, "coordinates")
                 /\ LET c == cleaned.coordinates
                    IN  \/ c.lat < -90 \/ c.lat > 90
                        \/ c.lng < -180 \/ c.lng > 180,
                 "range:coordinates")
    \o Violation(/\ tableType = T_WEATHER
                 /\ Has(cleaned, "wind_directions")
                 /\ LET w == cleaned.wind_directions
                    IN  \E k \in DOMAIN w : \E i \in 1..Len(w[k]) :
                            w[k][i] \notin WindEnum,
                 "enum:wind_directions")

\* ------------------------------------------------------------------------
\* Guardrails (handler, STEP 4)
\* ------------------------------------------------------------------------

\* /d\.\s/.test(text)
hasStepMarker(text, d) ==
    \E i \in 1..(Len(text) - 2) :
        text[i] = d /\ text[i + 1] = "." /\ IsSpace(text[i + 2])

\* /1\.\s/.test(cleaned.answer) && /2\.\s/.test(cleaned.answer)
hasSteps(answer) == hasStepMarker(answer, "1") /\ hasStepMarker(answer, "2")

\* "ok", or which guardrail rejects the record
guardrail(tableType, cleaned) ==
    IF tableType # T_QNA THEN "ok"
    ELSE IF Text(cleaned, "tier") = L_PRO /\ ~hasSteps(cleaned.answer)
    THEN "pro"
    ELSE IF Text(cleaned, "tier") = L_FREE
            /\ sentenceCount(cleaned.answer) > 2
    THEN "free"
    ELSE "ok"

\* ------------------------------------------------------------------------
\* Column transformer
\* ------------------------------------------------------------------------

\* text || null and number || null
OrNull(v) == IF Truthy(v) THEN v ELSE null
OrNullNum(n) == IF n = nullNum \/ n = 0 THEN nullNum ELSE n

\* const toArray = (val) => val ? (Array.isArray(val) ? val : [s(val)]) : null
toArray(val) == IF Truthy(val) THEN <<s(val)>> ELSE null

transformToDbColumns(tableType, cleaned, harbourId) ==
    CASE tableType = T_QNA ->
           [harbour_name |-> s(Text(cleaned, "harbour")),
            question     |-> s(Text(cleaned, "question")),
            answer       |-> s(Text(cleaned, "answer")),
            category     |-> s(Text(cleaned, "category")),
            tags         |-> Arr(cleaned, "tags"),
            tier         |-> IF Truthy(s(Text(cleaned, "tier")))
                             THEN s(Text(cleaned, "tier")) ELSE L_PRO,
            notes        |-> OrNull(Text(cleaned, "notes"))]
      [] tableType = T_HARBOUR ->
           [name          |-> s(Text(cleaned, "name")),
            island        |-> OrNull(s(Text(cleaned, "region"))),
            lat           |-> OrNullNum(Num(Sub(cleaned, "coordinates"), "lat")),
            lon           |-> OrNullNum(Num(Sub(cleaned, "coordinates"), "lng")),
            depth_range   |-> OrNull(s(Text(cleaned, "depth_range"))),
            facilities    |-> Arr(cleaned, "facilities"),
            mooring       |-> toArray(Text(cleaned, "mooring_info")),
            approach      |-> toArray(Text(cleaned, "approach_info")),
            shelter       |-> toArray(Text(cleaned, "shelter_info")),
            hazards       |-> toArray(Text(cleaned, "hazards")),
            holding       |-> toArray(Text(cleaned, "holding")),
            seabed        |-> toArray(Text(cleaned, "seabed")),
            atmosphere    |-> toArray(Text(cleaned, "atmosphere")),
            best_arrival  |-> toArray(Text(cleaned, "best_arrival")),
            crowding_risk |-> toArray(Text(cleaned, "crowding_risk")),
            notes         |-> OrNull(Text(cleaned, "notes"))]
      [] tableType = T_WEATHER ->
           [harbour_id         |-> harbourId,
            sheltered_from     |->
                Arr(Sub(cleaned, "wind_directions"), "sheltered_from"),
            exposed_to         |->
                Arr(Sub(cleaned, "wind_directions"), "exposed_to"),
            safety_summary     |-> OrNull(s(Text(cleaned, "safety_summary"))),
            holding_quality    |-> OrNull(s(Text(cleaned, "holding_quality"))),
            surge_notes        |-> OrNull(s(Text(cleaned, "surge_notes"))),
            depth_notes        |-> OrNull(s(Text(cleaned, "depth_notes"))),
            fallback_options   |-> OrNull(s(Text(cleaned, "fallback_options"))),
            mooring_difficulty |->
                OrNull(s(Text(cleaned, "mooring_difficulty"))),
            safe_wind_knots    |-> OrNullNum(Num(cleaned, "safe_wind_knots")),
            caution_wind_knots |->
                OrNullNum(Num(cleaned, "caution_wind_knots")),
            unsafe_wind_knots  |-> OrNullNum(Num(cleaned, "unsafe_wind_knots"))]
      [] tableType = T_MEDIA ->
           [harbour_id  |-> harbourId,
            media_type  |-> s(Text(cleaned, "media_type")),
            file_url    |-> s(Text(cleaned, "url")),
            description |-> OrNull(s(Text(cleaned, "description"))),
            tier        |-> IF Truthy(s(Text(cleaned, "tier")))
                            THEN s(Text(cleaned, "tier")) ELSE L_FREE]

\* the columns of each table ("Actual columns" of transformToDbColumns)
Columns(tableType) ==
    CASE tableType = T_QNA ->
           {"answer", "category", "created_at", "embedding", "harbour_id",
            "harbour_name", "id", "notes", "question", "source", "tags",
            "tier"}
      [] tableType = T_HARBOUR ->
           {"approach", "atmosphere", "best_arrival", "created_at",
            "crowding_risk", "depth_range", "facilities", "hazards",
            "holding", "id", "island", "island_id", "lat", "lon", "mooring",
            "name", "notes", "seabed", "shelter"}
      [] tableType = T_WEATHER ->
           {"caution_wind_knots", "created_at", "depth_notes", "expose_mask",
            "exposed_to", "fallback_options", "harbour_id",
            "holding_quality", "id", "mooring_difficulty", "safe_wind_knots",
            "safety_summary", "score_version", "shelter_mask",
            "sheltered_from", "surge_notes", "unsafe_wind_knots"}
      [] tableType = T_MEDIA ->
           {"created_at", "description", "file_url", "harbour_id", "id",
            "media_type", "tier"}

\* the tracking id attached as source_row_id, as the earlier handler did
withSourceRowId(tableType, payload, row_id) ==
    IF Truthy(row_id) /\ tableType = T_QNA
    THEN [k \in DOMAIN payload \cup {"source_row_id"} |->
              IF k = "source_row_id" THEN row_id ELSE payload[k]]
    ELSE payload

\* the fields the cleaning prompt of a table names (getCleaningPrompt), each
\* with the object that holds it (top for the cleaned object itself), the
\* expression of transformToDbColumns that reads it and the column it is
\* assigned to
Field(sub, name, kind, column) ==
    [sub |-> sub, name |-> name, kind |-> kind, column |-> column]

promptFields(tableType) ==
    CASE tableType = T_QNA ->
           {Field("top", "harbour", "s", "harbour_name"),
            Field("top", "question", "s", "question"),
            Field("top", "answer", "s", "answer"),
            Field("top", "category", "s", "category"),
            Field("top", "tags", "array", "tags"),
            Field("top", "tier", "s", "tier"),
            Field("top", "notes", "text", "notes")}
      [] tableType = T_HARBOUR ->
           {Field("top", "name", "s", "name"),
            Field("top", "region", "s", "island"),
            Field("coordinates", "lat", "number", "lat"),
            Field("coordinates", "lng", "number", "lon"),
            Field("top", "depth_range", "s", "depth_range"),
            Field("top", "facilities", "array", "facilities"),
            Field("top", "mooring_info", "toArray", "mooring"),
            Field("top", "approach_info", "toArray", "approach"),
            Field("top", "shelter_info", "toArray", "shelter"),
            Field("top", "hazards", "toArray", "hazards"),
            Field("top", "holding", "toArray", "holding"),
            Field("top", "seabed", "toArray", "seabed"),
            Field("top", "atmosphere", "toArray", "atmosphere"),
            Field("top", "best_arrival", "toArray", "best_arrival"),
            Field("top", "crowding_risk", "toArray", "crowding_risk"),
            Field("top", "notes", "text", "notes")}
      [] tableType = T_WEATHER ->
           {Field("wind_directions", "sheltered_from", "array",
                  "sheltered_from"),
            Field("wind_directions", "exposed_to", "array", "exposed_to"),
            Field("top", "safety_summary", "s", "safety_summary"),
            Field("top", "holding_quality", "s", "holding_quality"),
            Field("top", "surge_notes", "s", "surge_notes"),
            Field("top", "depth_notes", "s", "depth_notes"),
            Field("top", "fallback_options", "s", "fallback_options"),
            Field("top", "mooring_difficulty", "s", "mooring_difficulty"),
            Field("top", "safe_wind_knots", "number", "safe_wind_knots"),
            Field("top", "caution_wind_knots", "number",
                  "caution_wind_knots"),
            Field("top", "unsafe_wind_knots", "number", "unsafe_wind_knots")}
      [] tableType = T_MEDIA ->
           {Field("top", "media_type", "s", "media_type"),
            Field("top", "url", "s", "file_url"),
            Field("top", "description", "s", "description"),
            Field("top", "tier", "s", "tier")}

\* the object of the cleaned record that holds a field
holder(cleaned, f) ==
    IF f.sub = "top" THEN cleaned ELSE Sub(cleaned, f.sub)

\* the tracking column attached whatever the table
withSourceEveryTable(tableType, payload, row_id) ==
    IF Truthy(row_id)
    THEN [k \in DOMAIN payload \cup {"source"} |->
              IF k = "source" THEN row_id ELSE payload[k]]
    ELSE payload

\* payload.source = row_id, only for harbour_questions (handler, STEP 6)
withSource(tableType, payload, row_id) ==
    IF Truthy(row_id) /\ tableType = T_QNA
    THEN [k \in DOMAIN payload \cup {"source"} |->
              IF k = "source" THEN row_id ELSE payload[k]]
    ELSE payload

\* ------------------------------------------------------------------------
\* Harbour lookup
\* ------------------------------------------------------------------------

RECURSIVE ilike(_, _)
\* .ilike('name', pattern): case-insensitive match of the whole name, with
\* the pattern characters % (any run of characters) and _ (any character)
ilike(name, pattern) ==
    IF pattern = <<>> THEN name = <<>>
    ELSE IF Head(pattern) = "%"
    THEN \/ ilike(name, Tail(pattern))
         \/ name # <<>> /\ ilike(Tail(name), pattern)
    ELSE /\ name # <<>>
         /\ Head(pattern) = "_" \/ upperChar(Head(name)) = upperChar(Head(pattern))
         /\ ilike(Tail(name), Tail(pattern))

\* the lookup with .limit(1) in place of .single(): the first match is taken
verifyHarbourFirstMatch(harbours, harbourName, storeOk) ==
    LET matches == {i \in 1..Len(harbours) :
                       /\ harbours[i].data.name # null
                       /\ ilike(harbours[i].data.name, harbourName)}
    IN  IF storeOk /\ matches # {}
        THEN harbours[CHOOSE i \in matches : \A j \in matches : i <= j].id
        ELSE nullId

\* verifyHarbour: .single() is an error unless exactly one row matches; a
\* store error, like no match, gives null
verifyHarbour(harbours, harbourName, storeOk) ==
    LET matches == {i \in 1..Len(harbours) :
                       /\ harbours[i].data.name # null
                       /\ ilike(harbours[i].data.name, harbourName)}
    IN  IF storeOk /\ Cardinality(matches) = 1
        THEN harbours[CHOOSE i \in matches : TRUE].id
        ELSE nullId

\* ------------------------------------------------------------------------
\* Inputs
\* ------------------------------------------------------------------------

N_KIONI   == <<"K","i","o","n","i">>
N_VATHI   == <<"V","a","t","h","i">>
N_NOWHERE == <<"N","o","n","e">>
SP == <<" ">>
X_TEXT == <<"x">>

TR_Blank        == <<" ", " ">>
TR_Harbour      == W_HARBOURC \o SP \o N_VATHI
TR_Weather      == toLowerCase(W_WEATHERC) \o SP \o N_KIONI
TR_Media        == SP \o W_MEDIAC \o SP \o X_TEXT
TR_QuestionOnly == W_QUESTIONC \o SP \o N_KIONI \o SP \o X_TEXT
TR_Keyword      == toLowerCase(W_QUESTION) \o SP \o X_TEXT \o SP
                   \o toLowerCase(W_ANSWER) \o SP \o X_TEXT
TR_AnswerFirst  == W_ANSWER \o <<":">> \o SP \o X_TEXT \o SP
                   \o W_QUESTIONC \o SP \o X_TEXT
TR_PrefixBoth   == W_HARBOURC \o SP \o W_QUESTION \o SP \o W_ANSWER
TR_Plain        == <<"N","i","c","e">>
TR_TierFreeQna  == W_TIERC \o SP \o W_FREE \o <<".">> \o SP \o W_QUESTIONC
                   \o SP \o X_TEXT \o SP \o W_ANSWER \o <<":">> \o SP \o X_TEXT
TR_TierOnly     == W_TIERC \o SP \o toLowerCase(W_FREE)
TR_TierMedia    == W_TIERC \o W_EXCLUSIVE \o SP \o W_MEDIAC \o X_TEXT

Transcripts ==
    {null, <<>>, TR_Blank, TR_Harbour, TR_Weather, TR_Media, TR_QuestionOnly,
     TR_Keyword, TR_AnswerFirst, TR_PrefixBoth, TR_Plain, TR_TierFreeQna,
     TR_TierOnly, TR_TierMedia}

HarbourNames == {null, N_KIONI}
RowIds == {null, <<"r","1">>}
Methods == {"POST", "GET"}

\* transcripts put together from at most MaxPieces pieces
MaxPieces == 3

P_TierFree == W_TIERC \o SP \o W_FREE \o <<".">> \o SP

TextPieces ==
    {W_QUESTIONC, SP \o toLowerCase(W_ANSWER) \o SP, W_HARBOURC,
     toLowerCase(W_WEATHERC), SP \o W_MEDIAC, X_TEXT, SP, P_TierFree,
     W_TIERC, toLowerCase(W_TIERC), toLowerCase(W_PRO),
     toLowerCase(W_EXCLUSIVE) \o <<".">>}

RECURSIVE PieceStrings(_)
PieceStrings(n) ==
    IF n = 0 THEN {<<>>}
    ELSE LET shorter == PieceStrings(n - 1)
         IN  shorter \cup {p \o q : p \in TextPieces, q \in shorter}

TextInputs == PieceStrings(MaxPieces)

\* replies of the fallback classifier: table, confidence (in hundredths,
\* after parseFloat) and reasoning
GptTables == ShapeTables \cup {"undefined", "harbour_reviews"}
GptConfidences == {65, 89, 90, 100, 150, NaN}
GptReasonings == {<<"w","h","y">>}

\* answers of cleaned Q&A records
A_Steps     == <<"1", ".", " ", "a", " ", "2", ".", " ", "b">>
A_Reversed  == <<"2", ".", " ", "a", " ", "1", ".", " ", "b">>
A_NoSpace   == <<"1", ".", "a", " ", "2", ".", "b">>
A_Two       == <<"a", ".", " ", "b", ".">>
A_Three     == <<"a", ".", " ", "b", "!", " ", "c", "?">>
A_Dotted    == <<"a", ".", "b", ".", "c">>
A_ThreeTrim == <<"a", ".", "\n", "b", ".", " ", "c", ".", " ">>
Answers == {<<>>, A_Steps, A_Reversed, A_NoSpace, A_Two, A_Three, A_Dotted,
            A_ThreeTrim}

Restrict(f, keys) == [k \in keys |-> f[k]]

CAT_MOORING == <<"M","o","o","r","i","n","g">>
TAG_SCOPE == <<"s","c","o","p","e",":","h">>

QnaRecord(h, a, t) ==
    [harbour |-> h, question |-> X_TEXT, answer |-> a,
     category |-> CAT_MOORING, tags |-> <<TAG_SCOPE>>, tier |-> t,
     notes |-> null]

CleanedQna ==
    {QnaRecord(h, a, t) :
        h \in {toLowerCase(N_KIONI), N_NOWHERE}, a \in Answers,
        t \in TierEnum}
    \cup {QnaRecord(N_KIONI, A_Steps, W_PRO),
          Restrict(QnaRecord(N_KIONI, A_Steps, L_PRO),
                   DeclaredKeys(T_QNA) \ {"tier"}),
          Restrict(QnaRecord(N_KIONI, A_Steps, L_PRO),
                   {"question", "answer", "category", "tier"}),
          [QnaRecord(N_KIONI, A_Steps, L_PRO) EXCEPT !.category = null]}

CleanedHarbours ==
    {[name |-> N_VATHI],
     [name |-> N_KIONI, region |-> <<"I">>,
      coordinates |-> [lat |-> 38, lng |-> 20], mooring_info |-> X_TEXT],
     [name |-> N_VATHI, coordinates |-> [lat |-> 0, lng |-> 20]],
     [name |-> N_VATHI, coordinates |-> [lat |-> 9999, lng |-> 9999]],
     [region |-> <<"I">>]}

CleanedWeather ==
    {[safety_summary |-> X_TEXT],
     [wind_directions |-> [sheltered_from |-> <<"n", "nw">>,
                           exposed_to |-> <<"se">>],
      safe_wind_knots |-> 15, caution_wind_knots |-> 0],
     [harbour_name |-> N_KIONI,
      wind_directions |-> [sheltered_from |-> <<"n">>]],
     [harbour_name |-> N_NOWHERE, safe_wind_knots |-> 15],
     [wind_directions |-> [sheltered_from |-> <<"N">>, exposed_to |-> <<>>]]}

U_HTTP == <<"h","t","t","p">>

CleanedMedia ==
    {[media_type |-> <<"t">>, url |-> U_HTTP, description |-> X_TEXT,
      tier |-> L_FREE],
     [media_type |-> <<"t">>, url |-> U_HTTP],
     [harbour_name |-> N_KIONI, media_type |-> <<"t">>, url |-> U_HTTP,
      description |-> X_TEXT, tier |-> L_EXCLUSIVE],
     [media_type |-> <<"t">>, url |-> U_HTTP, tier |-> W_FREE],
     [media_type |-> <<"t">>, url |-> U_HTTP, title |-> X_TEXT],
     [url |-> U_HTTP]}

\* the objects the Cleaner may return for a table
CleanedOf(tableType) ==
    CASE tableType = T_QNA -> CleanedQna
      [] tableType = T_HARBOUR -> CleanedHarbours
      [] tableType = T_WEATHER -> CleanedWeather
      [] tableType = T_MEDIA -> CleanedMedia

\* ------------------------------------------------------------------------
\* State
\* ------------------------------------------------------------------------

Reqs == {1, 2}

VARIABLES
    pc,                 \* request -> the await the handler is suspended at
    req,                \* request -> method and body of the HTTP request
    loc,                \* request -> local variables of the handler
    resp,               \* request -> the response sent (status 0: none yet)
    db,                 \* table name -> rows of the four shape tables
    validation_errors,  \* rows of the validation_errors table
    qna_review_queue,   \* rows of the qna_review_queue table
    validate_errors,    \* table name -> validate.errors of its validator
    nextId,             \* the next identifier the store generates
    stat,               \* request -> how often each collaborator was called
    batch               \* the run of the batch script: folders, log, position

vars == <<pc, req, loc, resp, db, validation_errors, qna_review_queue,
          validate_errors, nextId, stat, batch>>

NoReq == [method |-> "none", transcript |-> null, harbour_name |-> null,
          row_id |-> null]

NoLoc == [detectedTier |-> null, workingTranscript |-> null,
          detection |-> NoDetection, tableType |-> "none", cleaned |-> <<>>,
          harbourValue |-> null, harbourId |-> nullId, payload |-> <<>>,
          category |-> "none", pending |-> <<>>, queueId |-> nullId,
          dataId |-> nullId]

NoResp == [status |-> 0, body |-> <<>>]

\* the calls a request has made and the results it got; stale is set when
\* its insert took place after the harbour it resolved had left the registry
NoStat == [classify |-> 0, clean |-> 0, validate |-> 0, verify |-> 0,
           insert |-> 0, inserted |-> 0, park |-> 0, parked |-> 0,
           log |-> 0, logged |-> 0, embed |-> 0, update |-> 0,
           stale |-> 0]

\* the batch script before it is run
NoBatch == [pc |-> "off", files |-> <<>>, k |-> 0, inbox |-> {},
            archive |-> {}, log |-> <<>>,
            results |-> [total |-> 0, successful |-> 0, failed |-> 0],
            transcript |-> null, sent |-> <<>>, transcribed |-> {},
            ingested |-> {}]

\* a harbours row as the endpoint stores it
HarbourRow(id, name) ==
    [id |-> id, embedding |-> FALSE,
     data |-> transformToDbColumns(T_HARBOUR, [name |-> name], nullId)]

\* the identifiers of the harbours registered before the request
RegistryIds == {1, 2}
FirstNewId == Cardinality(RegistryIds) + 1

\* the harbour registry before the request: empty, one harbour, or two
\* harbours whose names differ only in letter case
Registries ==
    {<<>>,
     <<HarbourRow(1, N_KIONI)>>,
     <<HarbourRow(1, N_KIONI), HarbourRow(2, toUpperCase(N_KIONI))>>}

InitStore ==
    /\ \E h \in Registries :
          db = [tb \in ShapeTables |-> IF tb = T_HARBOUR THEN h ELSE <<>>]
    /\ validation_errors = <<>>
    /\ qna_review_queue = <<>>
    /\ validate_errors = [tb \in ShapeTables |-> <<>>]
    /\ nextId = FirstNewId

Init ==
    /\ pc = [r \in Reqs |-> IF r = 1 THEN "idle" ELSE "off"]
    /\ req = [r \in Reqs |-> NoReq]
    /\ loc = [r \in Reqs |-> NoLoc]
    /\ resp = [r \in Reqs |-> NoResp]
    /\ stat = [r \in Reqs |-> NoStat]
    /\ batch = NoBatch
    /\ InitStore

\* ------------------------------------------------------------------------
\* Rows written to the error log and to the review queue
\* ------------------------------------------------------------------------

\* the row logValidationError inserts
LogRow(level, title, errorType, details, transcript, attemptedPayload) ==
    [level |-> level, title |-> title, error_type |-> errorType,
     details |-> details, transcript |-> transcript,
     attempted_payload |-> attemptedPayload, resolved |-> FALSE]

\* the row parkInReviewQueue inserts
QueueRow(transcript, errorMessage, errorType, validationErrors) ==
    [transcript |-> transcript, error_message |-> errorMessage,
     error_type |-> errorType, validation_errors |-> validationErrors,
     status |-> "needs_review"]

\* ------------------------------------------------------------------------
\* The handler between two awaits.  A continuation is the state the request
\* is left in: its next await, its locals, its call counts and its response.
\* ------------------------------------------------------------------------

Cont(stage, l, st, rs) == [pc |-> stage, loc |-> l, stat |-> st, resp |-> rs]

Step(r, k) ==
    /\ pc' = [pc EXCEPT ![r] = k.pc]
    /\ loc' = [loc EXCEPT ![r] = k.loc]
    /\ stat' = [stat EXCEPT ![r] = k.stat]
    /\ resp' = [resp EXCEPT ![r] = k.resp]
    /\ UNCHANGED batch

\* return res.status(status).json(body)
Respond(l, st, status, body) ==
    Cont("done", l, st, [status |-> status, body |-> body])

\* the parking left out: the handler goes on to the error log
CallParkSkipped(l, st, category, row) ==
    Cont("log", [l EXCEPT !.category = category, !.pending = row],
         [st EXCEPT !.log = @ + 1], NoResp)

\* await parkInReviewQueue(...): the insert is in flight
CallPark(l, st, category, row) ==
    Cont("park", [l EXCEPT !.category = category, !.pending = row],
         [st EXCEPT !.park = @ + 1], NoResp)

\* await logValidationError(...): the insert is in flight
CallLog(l, st, category, row) ==
    Cont("log", [l EXCEPT !.category = category, !.pending = row],
         [st EXCEPT !.log = @ + 1], NoResp)

\* the catch of the handler logging at high severity
CatchHigh(l, st, transcript) ==
    CallLog(l, st, "unhandled_exception",
            LogRow("high", "Unhandled Error", "unhandled_exception",
                   <<>>, IF Truthy(transcript) THEN transcript ELSE <<>>,
                   null))

\* a catch that logs the working text in place of the received transcript
CatchWorkingText(l, st, transcript) ==
    CallLog(l, st, "unhandled_exception",
            LogRow("critical", "Unhandled Error", "unhandled_exception",
                   <<>>, l.workingTranscript, null))

\* catch (err) of the handler: log the unhandled error, then respond 500
Catch(l, st, transcript) ==
    CallLog(l, st, "unhandled_exception",
            LogRow("critical", "Unhandled Error", "unhandled_exception",
                   <<>>, IF Truthy(transcript) THEN transcript ELSE <<>>,
                   null))

\* a cleaning prompt for whatever table is named
getCleaningPromptAnyTable(tableType) == TRUE

\* getCleaningPrompt(tableType, tier) is undefined for a table outside the
\* four, and reading .system of it throws
getCleaningPrompt(tableType) == tableType \in ShapeTables

\* STEP 2, up to the call of the Cleaner
StartCleaning(l, st, transcript) ==
    LET l2 == [l EXCEPT !.tableType = l.detection.table]
    IN  IF getCleaningPrompt(l2.tableType)
        THEN Cont("clean", l2, [st EXCEPT !.clean = @ + 1], NoResp)
        ELSE Catch(l2, st, transcript)

\* STEP 6, up to the insert
StartInsert(l, st, row_id) ==
    Cont("insert",
         [l EXCEPT !.payload =
              withSource(l.tableType,
                         transformToDbColumns(l.tableType, l.cleaned,
                                              l.harbourId),
                         row_id)],
         [st EXCEPT !.insert = @ + 1], NoResp)

\* STEP 5 without the exemption of the harbours table
StartVerifyEveryTable(l, st, harbour_name, row_id) ==
    LET fromCleaned == Text(l.cleaned, harbourFieldName(l.tableType))
        harbourValue == IF Truthy(fromCleaned) THEN fromCleaned
                        ELSE harbour_name
        l2 == [l EXCEPT !.harbourValue = harbourValue]
    IN  IF Truthy(harbourValue)
        THEN Cont("verify", l2, [st EXCEPT !.verify = @ + 1], NoResp)
        ELSE StartInsert(l2, st, row_id)

\* STEP 5, up to the harbour lookup or the insert
StartVerify(l, st, harbour_name, row_id) ==
    LET fromCleaned == Text(l.cleaned, harbourFieldName(l.tableType))
        harbourValue == IF Truthy(fromCleaned) THEN fromCleaned
                        ELSE harbour_name
        l2 == [l EXCEPT !.harbourValue = harbourValue]
    IN  IF l.tableType # T_HARBOUR /\ Truthy(harbourValue)
        THEN Cont("verify", l2, [st EXCEPT !.verify = @ + 1], NoResp)
        ELSE StartInsert(l2, st, row_id)

\* ------------------------------------------------------------------------
\* Actions: the handler from one await to the next
\* ------------------------------------------------------------------------

\* the entry with the input check reduced to !transcript
handlerEntryNoTrim(method, transcript) ==
    IF method # "POST"
    THEN Respond(NoLoc, NoStat, 405, [error |-> "Method not allowed"])
    ELSE IF ~Truthy(transcript)
    THEN Respond(NoLoc, NoStat, 400,
                 [error |-> "Missing required field: transcript"])
    ELSE LET dt == detectTier(transcript)
             l  == [NoLoc EXCEPT
                      !.detectedTier = dt.tier,
                      !.workingTranscript = dt.cleanedTranscript,
                      !.detection =
                          detectTableTypeByPrefix(dt.cleanedTranscript)]
         IN  IF l.detection = NoDetection
             THEN Cont("classify", l, [NoStat EXCEPT !.classify = 1], NoResp)
             ELSE StartCleaning(l, NoStat, transcript)

\* the blank check applied to the working text as well
handlerEntryBlankWorkingText(method, transcript) ==
    IF method # "POST"
    THEN Respond(NoLoc, NoStat, 405, [error |-> "Method not allowed"])
    ELSE IF ~Truthy(transcript) \/ ~Truthy(trim(transcript))
            \/ ~Truthy(detectTier(transcript).cleanedTranscript)
    THEN Respond(NoLoc, NoStat, 400,
                 [error |-> "Missing required field: transcript"])
    ELSE LET dt == detectTier(transcript)
             l  == [NoLoc EXCEPT
                      !.detectedTier = dt.tier,
                      !.workingTranscript = dt.cleanedTranscript,
                      !.detection =
                          detectTableTypeByPrefix(dt.cleanedTranscript)]
         IN  IF l.detection = NoDetection
             THEN Cont("classify", l, [NoStat EXCEPT !.classify = 1], NoResp)
             ELSE StartCleaning(l, NoStat, transcript)

\* entry of the handler up to its first await: method and input checks,
\* STEP 0.5 (tier) and STEP 1 (prefix and keyword detection)
handlerEntry(method, transcript) ==
    IF method # "POST"
    THEN Respond(NoLoc, NoStat, 405, [error |-> "Method not allowed"])
    ELSE IF ~Truthy(transcript) \/ ~Truthy(trim(transcript))
    THEN Respond(NoLoc, NoStat, 400,
                 [error |-> "Missing required field: transcript"])
    ELSE LET dt == detectTier(transcript)
             l  == [NoLoc EXCEPT
                      !.detectedTier = dt.tier,
                      !.workingTranscript = dt.cleanedTranscript,
                      !.detection =
                          detectTableTypeByPrefix(dt.cleanedTranscript)]
         IN  IF l.detection = NoDetection
             THEN Cont("classify", l, [NoStat EXCEPT !.classify = 1], NoResp)
             ELSE StartCleaning(l, NoStat, transcript)

\* a request arrives, its method and body drawn from the given sets
Arrive(r, methods, transcripts, harbourNames, rowIds) ==
    /\ pc[r] = "idle"
    /\ \E m \in methods, tr \in transcripts, h \in harbourNames,
          rid \in rowIds :
          /\ req' = [req EXCEPT ![r] =
                        [method |-> m, transcript |-> tr,
                         harbour_name |-> h, row_id |-> rid]]
          /\ Step(r, handlerEntry(m, tr))
    /\ UNCHANGED <<db, validation_errors, qna_review_queue, validate_errors,
                   nextId>>

HandlerStart(r) == Arrive(r, Methods, Transcripts, HarbourNames, RowIds)

\* a request whose transcript is put together from the text pieces
TextStart(r) == Arrive(r, {"POST"}, TextInputs, {null}, {null})

\* classifyTableTypeWithGPT returns or throws; the confidence gate
ClassifyReturn(r) ==
    /\ pc[r] = "classify"
    /\ \/ Step(r, Catch(loc[r], stat[r], req[r].transcript))
       \/ \E tb \in GptTables, c \in GptConfidences, why \in GptReasonings :
             LET detection == [table |-> tb, confidence |-> c,
                               method |-> "gpt", reasoning |-> why]
                 l == [loc[r] EXCEPT !.detection = detection]
             IN  Step(r,
                   IF lowConfidence(c)
                   THEN CallPark(l, stat[r], "low_confidence",
                          QueueRow(req[r].transcript,
                                   <<"Low AI confidence", c>>,
                                   "low_confidence",
                                   [detection |-> detection]))
                   ELSE StartCleaning(l, stat[r], req[r].transcript))
    /\ UNCHANGED <<req, db, validation_errors, qna_review_queue,
                   validate_errors, nextId>>

\* STEP 4 with the free-tier violation logged at high severity
afterValidateFreeHigh(r, cleaned) ==
    LET l  == [loc[r] EXCEPT !.cleaned = cleaned]
        st == [stat[r] EXCEPT !.validate = @ + 1]
        g  == guardrail(l.tableType, cleaned)
    IN  IF g = "pro"
        THEN CallLog(l, st, "tier_validation",
                     LogRow("medium", "Pro Tier Format Violation",
                            "tier_validation",
                            [tier |-> L_PRO,
                             issue |-> "missing_numbered_steps"],
                            req[r].transcript, cleaned))
        ELSE IF g = "free"
        THEN CallLog(l, st, "tier_validation",
                     LogRow("high", "Free Tier Length Violation",
                            "tier_validation",
                            [tier |-> L_FREE,
                             sentence_count |-> sentenceCount(cleaned.answer),
                             max_allowed |-> 2],
                            req[r].transcript, cleaned))
        ELSE StartVerify(l, st, req[r].harbour_name, req[r].row_id)

\* STEP 4 and STEP 5 for a record that passed the schema validation
afterValidate(r, cleaned) ==
    LET l  == [loc[r] EXCEPT !.cleaned = cleaned]
        st == [stat[r] EXCEPT !.validate = @ + 1]
        g  == guardrail(l.tableType, cleaned)
    IN  IF g = "pro"
        THEN CallLog(l, st, "tier_validation",
                     LogRow("medium", "Pro Tier Format Violation",
                            "tier_validation",
                            [tier |-> L_PRO,
                             issue |-> "missing_numbered_steps"],
                            req[r].transcript, cleaned))
        ELSE IF g = "free"
        THEN CallLog(l, st, "tier_validation",
                     LogRow("medium", "Free Tier Length Violation",
                            "tier_validation",
                            [tier |-> L_FREE,
                             sentence_count |-> sentenceCount(cleaned.answer),
                             max_allowed |-> 2],
                            req[r].transcript, cleaned))
        ELSE StartVerify(l, st, req[r].harbour_name, req[r].row_id)

\* STEP 3 with the parking left out: log, respond
afterParseLogOnly(r, cleaned, errors) ==
    IF errors # <<>>
    THEN CallLog([loc[r] EXCEPT !.cleaned = cleaned],
                 [stat[r] EXCEPT !.validate = @ + 1], "schema_validation",
                 LogRow("high", "Schema Validation Failed",
                        "schema_validation",
                        [errors |-> errors, table |-> loc[r].tableType],
                        req[r].transcript, cleaned))
    ELSE afterValidate(r, cleaned)

\* STEP 3 for a parsed reply of the Cleaner: if (!ok) park, log, respond
afterParse(r, cleaned, errors) ==
    IF errors # <<>>
    THEN CallPark([loc[r] EXCEPT !.cleaned = cleaned],
                  [stat[r] EXCEPT !.validate = @ + 1], "schema_validation",
                  QueueRow(req[r].transcript, "Schema validation failed",
                           "schema_validation", errors))
    ELSE afterValidate(r, cleaned)

\* STEP 2 with the parse failure parked as well as logged
CleanReturnParseParked(r) ==
    /\ pc[r] = "clean"
    /\ \/ /\ Step(r, Catch(loc[r], stat[r], req[r].transcript))
          /\ UNCHANGED validate_errors
       \/ /\ Step(r, CallPark(loc[r], stat[r], "json_parse_error",
                        QueueRow(req[r].transcript, "JSON parse failed",
                                 "json_parse_error", <<>>)))
          /\ UNCHANGED validate_errors
       \/ \E cleaned \in CleanedOf(loc[r].tableType) :
             LET errors == schemaErrors(loc[r].tableType, cleaned)
             IN  /\ validate_errors' =
                        [validate_errors EXCEPT ![loc[r].tableType] = errors]
                 /\ Step(r, afterParse(r, cleaned, errors))
    /\ UNCHANGED <<req, db, validation_errors, qna_review_queue, nextId>>

\* the Cleaner call returns or throws; STEP 2 (parse), STEP 3 (schema),
\* STEP 4 (guardrails) and STEP 5 up to the harbour lookup
CleanReturn(r) ==
    /\ pc[r] = "clean"
    /\ \/ /\ Step(r, Catch(loc[r], stat[r], req[r].transcript))
          /\ UNCHANGED validate_errors
       \/ /\ Step(r, CallLog(loc[r], stat[r], "json_parse_error",
                        LogRow("high", "JSON Parse Failed",
                               "json_parse_error", <<>>,
                               req[r].transcript, null)))
          /\ UNCHANGED validate_errors
       \/ \E cleaned \in CleanedOf(loc[r].tableType) :
             LET errors == schemaErrors(loc[r].tableType, cleaned)
             IN  /\ validate_errors' =
                        [validate_errors EXCEPT ![loc[r].tableType] = errors]
                 /\ Step(r, afterParse(r, cleaned, errors))
    /\ UNCHANGED <<req, db, validation_errors, qna_review_queue, nextId>>

\* verifyHarbour returns and the insert is issued whatever it returned
VerifyReturnProceeds(r) ==
    /\ pc[r] = "verify"
    /\ \E storeOk \in BOOLEAN :
          LET id == verifyHarbour(db[T_HARBOUR], loc[r].harbourValue, storeOk)
              l  == [loc[r] EXCEPT !.harbourId = id]
          IN  Step(r, StartInsert(l, stat[r], req[r].row_id))
    /\ UNCHANGED <<req, db, validation_errors, qna_review_queue,
                   validate_errors, nextId>>

\* verifyHarbour returns, or throws what the store threw
VerifyReturnThrows(r) ==
    /\ pc[r] = "verify"
    /\ \E storeOk \in BOOLEAN :
          LET id == verifyHarbour(db[T_HARBOUR], loc[r].harbourValue, storeOk)
              l  == [loc[r] EXCEPT !.harbourId = id]
          IN  Step(r,
                IF ~storeOk
                THEN Catch(loc[r], stat[r], req[r].transcript)
                ELSE IF id # nullId
                THEN StartInsert(l, stat[r], req[r].row_id)
                ELSE CallPark(l, stat[r], "missing_harbour",
                       QueueRow(req[r].transcript,
                                <<"Harbour not found", l.harbourValue>>,
                                "missing_harbour",
                                [harbour_name |-> l.harbourValue])))
    /\ UNCHANGED <<req, db, validation_errors, qna_review_queue,
                   validate_errors, nextId>>

\* verifyHarbour returns; STEP 5 and STEP 6 up to the insert
VerifyReturn(r) ==
    /\ pc[r] = "verify"
    /\ \E storeOk \in BOOLEAN :
          LET id == verifyHarbour(db[T_HARBOUR], loc[r].harbourValue, storeOk)
              l  == [loc[r] EXCEPT !.harbourId = id]
          IN  Step(r,
                IF id # nullId
                THEN StartInsert(l, stat[r], req[r].row_id)
                ELSE CallPark(l, stat[r], "missing_harbour",
                       QueueRow(req[r].transcript,
                                <<"Harbour not found", l.harbourValue>>,
                                "missing_harbour",
                                [harbour_name |-> l.harbourValue])))
    /\ UNCHANGED <<req, db, validation_errors, qna_review_queue,
                   validate_errors, nextId>>

\* the logValidationError call that follows a parking, with its arguments
\* as they are evaluated when parkInReviewQueue has returned
logAfterPark(r) ==
    LET l == loc[r]
    IN  CASE l.category = "low_confidence" ->
               LogRow("medium", "Low Classification Confidence",
                      "low_confidence",
                      [confidence |-> l.detection.confidence,
                       suggested_table |-> l.detection.table,
                       reasoning |-> l.detection.reasoning],
                      req[r].transcript, null)
          [] l.category = "schema_validation" ->
               LogRow("high", "Schema Validation Failed", "schema_validation",
                      [errors |-> validate_errors[l.tableType],
                       table |-> l.tableType],
                      req[r].transcript, l.cleaned)
          [] l.category = "missing_harbour" ->
               LogRow("high", "Harbour Not Found", "missing_harbour",
                      [harbour_name |-> l.harbourValue,
                       table |-> l.tableType],
                      req[r].transcript, l.cleaned)

\* parkInReviewQueue returns the id of the new row, or throws when the
\* insert failed
ParkReturnRaises(r, ok) ==
    /\ pc[r] = "park"
    /\    /\ qna_review_queue' =
                IF ok
                THEN Append(qna_review_queue,
                            [id |-> nextId, row |-> loc[r].pending])
                ELSE qna_review_queue
          /\ nextId' = IF ok THEN nextId + 1 ELSE nextId
          /\ Step(r, IF ok
                     THEN CallLog([loc[r] EXCEPT !.queueId = nextId],
                                  [stat[r] EXCEPT !.parked = @ + 1],
                                  loc[r].category, logAfterPark(r))
                     ELSE Catch(loc[r], stat[r], req[r].transcript))
    /\ UNCHANGED <<req, db, validation_errors, validate_errors>>

\* parkInReviewQueue returns: the id of the new row, or null when the
\* insert failed
ParkReturn(r, ok) ==
    /\ pc[r] = "park"
    /\    /\ qna_review_queue' =
                IF ok
                THEN Append(qna_review_queue,
                            [id |-> nextId, row |-> loc[r].pending])
                ELSE qna_review_queue
          /\ nextId' = IF ok THEN nextId + 1 ELSE nextId
          /\ Step(r, CallLog([loc[r] EXCEPT
                                !.queueId = IF ok THEN nextId ELSE nullId],
                             [stat[r] EXCEPT
                                !.parked = @ + (IF ok THEN 1 ELSE 0)],
                             loc[r].category, logAfterPark(r)))
    /\ UNCHANGED <<req, db, validation_errors, validate_errors>>

\* the response that follows the logValidationError call of each category
responseAfterLog(r) ==
    LET l == loc[r]
    IN  CASE l.category = "low_confidence" ->
               [status |-> 422,
                body |-> [error |-> "Classification confidence too low",
                          confidence |-> l.detection.confidence,
                          suggested_table |-> l.detection.table,
                          reasoning |-> l.detection.reasoning,
                          parked_in_queue |-> l.queueId]]
          [] l.category = "schema_validation" ->
               [status |-> 422,
                body |-> [error |-> "Validation failed",
                          table |-> l.tableType,
                          details |-> validate_errors[l.tableType],
                          cleaned |-> l.cleaned,
                          parked_in_queue |-> l.queueId]]
          [] l.category = "missing_harbour" ->
               [status |-> 422,
                body |-> [error |-> "Harbour not found",
                          harbour |-> l.harbourValue,
                          table |-> l.tableType,
                          parked_in_queue |-> l.queueId]]
          [] l.category = "json_parse_error" ->
               [status |-> 422, body |-> [error |-> "JSON parse failed"]]
          [] l.category = "tier_validation" ->
               [status |-> 422,
                body |-> [error |-> l.pending.title, cleaned |-> l.cleaned]]
          [] l.category = "db_insert_error" ->
               [status |-> 500,
                body |-> [error |-> "Database insert failed",
                          table |-> l.tableType, cleaned |-> l.cleaned]]
          [] l.category = "unhandled_exception" ->
               [status |-> 500, body |-> [error |-> "Unhandled error"]]

\* logValidationError returns (a failed insert is swallowed); the error
\* response is sent
LogReturn(r, ok) ==
    /\ pc[r] = "log"
    /\    /\ validation_errors' =
                IF ok THEN Append(validation_errors, loc[r].pending)
                ELSE validation_errors
          /\ Step(r, Cont("done", loc[r],
                          [stat[r] EXCEPT
                             !.logged = @ + (IF ok THEN 1 ELSE 0)],
                          responseAfterLog(r)))
    /\ UNCHANGED <<req, db, qna_review_queue, validate_errors, nextId>>

\* the body of the 200 response
successBody(l, embeddingTriggered) ==
    [status |-> "ok", table_type |-> l.tableType, id |-> l.dataId,
     confidence |-> l.detection.confidence, method |-> l.detection.method,
     harbour_id |-> l.harbourId, embedding_triggered |-> embeddingTriggered,
     cleaned |-> l.cleaned, inserted |-> l.payload]

\* STEP 7 with the embedding requested for every table
InsertReturnEmbedAll(r) ==
    /\ pc[r] = "insert"
    /\ \/ LET tb == loc[r].tableType
              l  == [loc[r] EXCEPT !.dataId = nextId]
              st == [stat[r] EXCEPT !.inserted = @ + 1]
          IN  /\ db' = [db EXCEPT ![tb] =
                           Append(@, [id |-> nextId, embedding |-> FALSE,
                                      data |-> l.payload])]
              /\ nextId' = nextId + 1
              /\ Step(r, Cont("embed", l, [st EXCEPT !.embed = @ + 1],
                              NoResp))
       \/ /\ Step(r, CallLog(loc[r], stat[r], "db_insert_error",
                        LogRow("critical", "Database Insert Failed",
                               "db_insert_error",
                               [table |-> loc[r].tableType],
                               req[r].transcript, loc[r].payload)))
          /\ UNCHANGED <<db, nextId>>
    /\ UNCHANGED <<req, validation_errors, qna_review_queue, validate_errors>>

\* STEP 6 with the failed insert logged without the attempted payload
InsertReturnNoPayload(r) ==
    /\ pc[r] = "insert"
    /\ \/ LET tb == loc[r].tableType
              l  == [loc[r] EXCEPT !.dataId = nextId]
              st == [stat[r] EXCEPT !.inserted = @ + 1]
          IN  /\ db' = [db EXCEPT ![tb] =
                           Append(@, [id |-> nextId, embedding |-> FALSE,
                                      data |-> l.payload])]
              /\ nextId' = nextId + 1
              /\ Step(r,
                   IF \/ tb = T_QNA
                      \/ tb = T_MEDIA
                         /\ Truthy(Text(l.cleaned, "description"))
                   THEN Cont("embed", l, [st EXCEPT !.embed = @ + 1], NoResp)
                   ELSE Respond(l, st, 200, successBody(l, FALSE)))
       \/ /\ Step(r, CallLog(loc[r], stat[r], "db_insert_error",
                        LogRow("critical", "Database Insert Failed",
                               "db_insert_error",
                               [table |-> loc[r].tableType],
                               req[r].transcript, <<>>)))
          /\ UNCHANGED <<db, nextId>>
    /\ UNCHANGED <<req, validation_errors, qna_review_queue, validate_errors>>

\* an insert that looks the harbour up again and is refused when the
\* harbour has left the registry
InsertReturnReverified(r) ==
    /\ pc[r] = "insert"
    /\ LET tb == loc[r].tableType
           l  == [loc[r] EXCEPT !.dataId = nextId]
           st == [stat[r] EXCEPT !.inserted = @ + 1, !.verify = @ + 1]
           present == \/ loc[r].harbourId = nullId
                      \/ loc[r].harbourId \in
                            {db[T_HARBOUR][i].id : i \in 1..Len(db[T_HARBOUR])}
       IN  \/ /\ present
              /\ db' = [db EXCEPT ![tb] =
                           Append(@, [id |-> nextId, embedding |-> FALSE,
                                      data |-> l.payload])]
              /\ nextId' = nextId + 1
              /\ Step(r,
                   IF \/ tb = T_QNA
                      \/ tb = T_MEDIA
                         /\ Truthy(Text(l.cleaned, "description"))
                   THEN Cont("embed", l, [st EXCEPT !.embed = @ + 1], NoResp)
                   ELSE Respond(l, st, 200, successBody(l, FALSE)))
           \/ /\ Step(r, CallLog(loc[r], stat[r], "db_insert_error",
                            LogRow("critical", "Database Insert Failed",
                                   "db_insert_error",
                                   [table |-> loc[r].tableType],
                                   req[r].transcript, loc[r].payload)))
              /\ UNCHANGED <<db, nextId>>
    /\ UNCHANGED <<req, validation_errors, qna_review_queue, validate_errors>>

\* no harbour was resolved, or the harbour resolved is in the registry
InRegistry(harbourId) ==
    \/ harbourId = nullId
    \/ \E i \in 1..Len(db[T_HARBOUR]) : db[T_HARBOUR][i].id = harbourId

\* the shape-table insert returns; STEP 6 and STEP 7 up to the embedding call
InsertReturn(r) ==
    /\ pc[r] = "insert"
    /\ \/ LET tb == loc[r].tableType
              l  == [loc[r] EXCEPT !.dataId = nextId]
              st == [stat[r] EXCEPT
                       !.inserted = @ + 1,
                       !.stale = IF InRegistry(loc[r].harbourId) THEN 0 ELSE 1]
          IN  /\ db' = [db EXCEPT ![tb] =
                           Append(@, [id |-> nextId, embedding |-> FALSE,
                                      data |-> l.payload])]
              /\ nextId' = nextId + 1
              /\ Step(r,
                   IF \/ tb = T_QNA
                      \/ tb = T_MEDIA
                         /\ Truthy(Text(l.cleaned, "description"))
                   THEN Cont("embed", l, [st EXCEPT !.embed = @ + 1], NoResp)
                   ELSE Respond(l, st, 200, successBody(l, FALSE)))
       \/ /\ Step(r, CallLog(loc[r], stat[r], "db_insert_error",
                        LogRow("critical", "Database Insert Failed",
                               "db_insert_error",
                               [table |-> loc[r].tableType],
                               req[r].transcript, loc[r].payload)))
          /\ UNCHANGED <<db, nextId>>
    /\ UNCHANGED <<req, validation_errors, qna_review_queue, validate_errors>>

\* the embedding call without its own try/catch: a throw reaches the catch
\* of the handler
EmbedReturnUncaught(r) ==
    /\ pc[r] = "embed"
    /\ \/ Step(r, Cont("update", loc[r],
                       [stat[r] EXCEPT !.update = @ + 1], NoResp))
       \/ Step(r, Catch(loc[r], stat[r], req[r].transcript))
    /\ UNCHANGED <<req, db, validation_errors, qna_review_queue,
                   validate_errors, nextId>>

\* openai.embeddings.create returns or throws
EmbedReturn(r) ==
    /\ pc[r] = "embed"
    /\ \/ Step(r, Cont("update", loc[r],
                       [stat[r] EXCEPT !.update = @ + 1], NoResp))
       \/ Step(r, Respond(loc[r], stat[r], 200, successBody(loc[r], FALSE)))
    /\ UNCHANGED <<req, db, validation_errors, qna_review_queue,
                   validate_errors, nextId>>

\* the embedding stored as a new row in place of the update by id
UpdateReturnInsert(r) ==
    /\ pc[r] = "update"
    /\ \/ /\ db' = [db EXCEPT ![loc[r].tableType] =
                       Append(@, [id |-> loc[r].dataId, embedding |-> TRUE,
                                  data |-> loc[r].payload])]
          /\ Step(r, Respond(loc[r], stat[r], 200, successBody(loc[r], TRUE)))
       \/ /\ UNCHANGED db
          /\ Step(r, Respond(loc[r], stat[r], 200, successBody(loc[r], FALSE)))
    /\ UNCHANGED <<req, validation_errors, qna_review_queue, validate_errors,
                   nextId>>

\* the update of the embedding column with its error thrown to the catch of
\* the handler
UpdateReturnFatal(r) ==
    /\ pc[r] = "update"
    /\ \/ /\ db' = [db EXCEPT ![loc[r].tableType] =
                       [i \in 1..Len(@) |->
                           IF @[i].id = loc[r].dataId
                           THEN [@[i] EXCEPT !.embedding = TRUE]
                           ELSE @[i]]]
          /\ Step(r, Respond(loc[r], stat[r], 200, successBody(loc[r], TRUE)))
       \/ /\ UNCHANGED db
          /\ Step(r, Catch(loc[r], stat[r], req[r].transcript))
    /\ UNCHANGED <<req, validation_errors, qna_review_queue, validate_errors,
                   nextId>>

\* the update of the embedding column returns, with or without updateError
UpdateReturn(r) ==
    /\ pc[r] = "update"
    /\ \/ /\ db' = [db EXCEPT ![loc[r].tableType] =
                       [i \in 1..Len(@) |->
                           IF @[i].id = loc[r].dataId
                           THEN [@[i] EXCEPT !.embedding = TRUE]
                           ELSE @[i]]]
          /\ Step(r, Respond(loc[r], stat[r], 200, successBody(loc[r], TRUE)))
       \/ /\ UNCHANGED db
          /\ Step(r, Respond(loc[r], stat[r], 200, successBody(loc[r], FALSE)))
    /\ UNCHANGED <<req, validation_errors, qna_review_queue, validate_errors,
                   nextId>>

Next ==
    \E r \in Reqs :
        \/ HandlerStart(r)
        \/ ClassifyReturn(r)
        \/ CleanReturn(r)
        \/ VerifyReturn(r)
        \/ \E ok \in BOOLEAN : ParkReturn(r, ok)
        \/ \E ok \in BOOLEAN : LogReturn(r, ok)
        \/ InsertReturn(r)
        \/ EmbedReturn(r)
        \/ UpdateReturn(r)

\* one request, with every outcome of every collaborator
Spec == Init /\ [][Next]_vars

\* the same, while the validation_errors and qna_review_queue tables accept
\* every insert
NextStoreUp ==
    \E r \in Reqs :
        \/ HandlerStart(r)
        \/ ClassifyReturn(r)
        \/ CleanReturn(r)
        \/ VerifyReturn(r)
        \/ ParkReturn(r, TRUE)
        \/ LogReturn(r, TRUE)
        \/ InsertReturn(r)
        \/ EmbedReturn(r)
        \/ UpdateReturn(r)

SpecStoreUp == Init /\ [][NextStoreUp]_vars

\* the handler up to its first await, on transcripts put together from the
\* text pieces
NextText == \E r \in Reqs : TextStart(r)

SpecText == Init /\ [][NextText]_vars

\* ------------------------------------------------------------------------
\* Re-invocation of the embedding step
\* ------------------------------------------------------------------------

\* how many times the embedding step is invoked again for one record
MaxReinvocations == 2

\* the record of the request is one STEP 7 asks an embedding for
Embeddable(r) ==
    /\ pc[r] = "done"
    /\ resp[r].status = 200
    /\ stat[r].inserted = 1
    /\ \/ loc[r].tableType = T_QNA
       \/ loc[r].tableType = T_MEDIA
          /\ Truthy(Text(loc[r].cleaned, "description"))
    /\ stat[r].embed < 1 + MaxReinvocations

\* the embedding block of STEP 7 is entered again for the row the request
\* inserted: openai.embeddings.create, then update ... .eq('id', data.id)
ReinvokeTrigger(r) ==
    /\ Embeddable(r)
    /\ Step(r, Cont("embed", loc[r], [stat[r] EXCEPT !.embed = @ + 1],
                    NoResp))
    /\ UNCHANGED <<req, db, validation_errors, qna_review_queue,
                   validate_errors, nextId>>

\* the /api/embed handler that stores what it embeds: without text or
\* harbour_name in the body it answers 400; otherwise it inserts a new
\* harbour_questions row (500 when the embedding or the insert fails)
embedHandler(method, body, ok) ==
    IF method # "POST"
    THEN [status |-> 405, rows |-> <<>>]
    ELSE IF ~Truthy(Text(body, "text")) \/ ~Truthy(Text(body, "harbour_name"))
    THEN [status |-> 400, rows |-> <<>>]
    ELSE IF ~ok
    THEN [status |-> 500, rows |-> <<>>]
    ELSE [status |-> 200,
          rows |-> <<[question |-> body.text, answer |-> null,
                      harbour_name |-> body.harbour_name]>>]

\* STEP 7 of the earlier handler: POST /api/embed with the table and the id
\* of the inserted row
PostEmbed(r) ==
    /\ Embeddable(r)
    /\ \E ok \in BOOLEAN :
          LET res == embedHandler("POST",
                                  [table |-> loc[r].tableType,
                                   id |-> loc[r].dataId], ok)
          IN  /\ db' = [db EXCEPT ![T_QNA] =
                           @ \o [i \in 1..Len(res.rows) |->
                                    [id |-> nextId, embedding |-> TRUE,
                                     data |-> res.rows[i]]]]
              /\ nextId' = nextId + Len(res.rows)
    /\ stat' = [stat EXCEPT ![r].embed = @ + 1]
    /\ UNCHANGED <<pc, req, loc, resp, validation_errors, qna_review_queue,
                   validate_errors, batch>>

NextReinvoke ==
    \/ NextStoreUp
    \/ \E r \in Reqs : ReinvokeTrigger(r) \/ PostEmbed(r)

\* one request, after which the embedding step is invoked again up to
\* MaxReinvocations times
SpecReinvoke == Init /\ [][NextReinvoke]_vars

\* ------------------------------------------------------------------------
\* Deletion of a harbour by another client of the store
\* ------------------------------------------------------------------------

\* supabase.from('harbours').delete().eq('id', id): the harbour with the
\* identifier leaves the registry
DeleteHarbour(id) ==
    /\ \E i \in 1..Len(db[T_HARBOUR]) : db[T_HARBOUR][i].id = id
    /\ db' = [db EXCEPT ![T_HARBOUR] =
                 SelectSeq(@, LAMBDA row : row.id # id)]
    /\ UNCHANGED <<pc, req, loc, resp, validation_errors, qna_review_queue,
                   validate_errors, nextId, stat, batch>>

NextRace ==
    \/ NextStoreUp
    \/ \E id \in RegistryIds : DeleteHarbour(id)

\* one request, while harbours are deleted from the registry at any moment
SpecRace == Init /\ [][NextRace]_vars

\* ------------------------------------------------------------------------
\* Concurrent requests
\* ------------------------------------------------------------------------

\* the transcripts of the concurrent requests: both name their table by
\* prefix
ConcurrentTranscripts == {TR_Media, TR_Harbour}

ConcurrentStart(r) ==
    Arrive(r, {"POST"}, ConcurrentTranscripts, {null}, {null})

\* both requests are about to arrive; the registry holds one harbour
InitConcurrent ==
    /\ pc = [r \in Reqs |-> "idle"]
    /\ req = [r \in Reqs |-> NoReq]
    /\ loc = [r \in Reqs |-> NoLoc]
    /\ resp = [r \in Reqs |-> NoResp]
    /\ stat = [r \in Reqs |-> NoStat]
    /\ batch = NoBatch
    /\ db = [tb \in ShapeTables |->
                IF tb = T_HARBOUR THEN <<HarbourRow(1, N_KIONI)>> ELSE <<>>]
    /\ validation_errors = <<>>
    /\ qna_review_queue = <<>>
    /\ validate_errors = [tb \in ShapeTables |-> <<>>]
    /\ nextId = FirstNewId

NextConcurrent ==
    \E r \in Reqs :
        \/ ConcurrentStart(r)
        \/ CleanReturn(r)
        \/ VerifyReturn(r)
        \/ ParkReturn(r, TRUE)
        \/ LogReturn(r, TRUE)
        \/ InsertReturn(r)
        \/ EmbedReturn(r)
        \/ UpdateReturn(r)

\* two requests in one process, their awaits interleaved in every order
SpecConcurrent == InitConcurrent /\ [][NextConcurrent]_vars

\* ------------------------------------------------------------------------
\* The batch script: transcribe, ingest, log, archive
\* ------------------------------------------------------------------------

\* names of entries of the voice_inbox folder
F_Kioni == <<"k","i","o","n","i","_","a",".","w","a","v">>
F_Upper == <<"B",".","M","P","3">>
F_Plain == <<"c",".","m","4","a">>
F_Text  == <<"n",".","t","x","t">>
InboxNames == {F_Kioni, F_Upper, F_Plain, F_Text}

\* the most entries the folder holds when the script is run
MaxFiles == 3

\* path.extname(file): from the last "." to the end, and "" when there is
\* no "." after the first character
extname(file) ==
    LET dots == {i \in 2..Len(file) : file[i] = "."}
    IN  IF dots = {}
        THEN <<>>
        ELSE SubSeq(file, CHOOSE i \in dots : \A j \in dots : j <= i,
                    Len(file))

supportedFormats ==
    {<<".","w","a","v">>, <<".","m","4","a">>, <<".","m","p","3">>,
     <<".","m","p","4">>, <<".","m","p","e","g">>, <<".","m","p","g","a">>,
     <<".","w","e","b","m">>}

\* the orders in which fs.readdirSync may list a folder
Listings(folder) ==
    {q \in [1..Cardinality(folder) -> folder] :
        \A i, j \in DOMAIN q : i # j => q[i] # q[j]}

\* the audio files of a listing (main, the filter on the extension)
audioFiles(listing) ==
    SelectSeq(listing,
              LAMBDA file : toLowerCase(extname(file)) \in supportedFormats)

Letters == {LowerAlpha[i] : i \in 1..26} \cup {UpperAlpha[i] : i \in 1..26}

\* ingestTranscript: the harbour name taken from the file name by
\* /^([a-zA-Z]+)_/, its first letter in upper case; null without a match
harbourNameOf(filename) ==
    LET j == skipWhile(filename, 1, Letters)
    IN  IF j > 1 /\ j <= Len(filename) /\ filename[j] = "_"
        THEN <<upperChar(filename[1])>> \o SubSeq(filename, 2, j - 1)
        ELSE null

\* the body ingestTranscript posts (the time in row_id left out)
ingestPayload(transcript, filename) ==
    [transcript |-> transcript, harbour_name |-> harbourNameOf(filename),
     row_id |-> <<"batch", filename>>]

\* the result object of a row that has none ({})
NoResult == [table_type |-> "", confidence |-> 0, method |-> "",
             harbour_id |-> nullId, embedding_triggered |-> FALSE]

\* logResult: the row appended to batch_log.csv (the timestamp left out).
\* A cell holds value || '': the falsy value of each type stands for the
\* empty cell.
logResult(filename, status, result, error) ==
    [filename |-> filename, status |-> status,
     table_type |-> result.table_type, confidence |-> result.confidence,
     method |-> result.method, harbour_id |-> result.harbour_id,
     embedding_triggered |-> result.embedding_triggered,
     error_message |-> error]

\* transcripts the transcription may return
BatchTranscripts == {TR_Harbour, <<>>}

\* bodies of a 2xx response of the ingestion endpoint
EndpointResults ==
    {[table_type |-> T_HARBOUR, confidence |-> 100, method |-> "prefix",
      harbour_id |-> nullId, embedding_triggered |-> FALSE],
     [table_type |-> T_QNA, confidence |-> 95, method |-> "gpt",
      harbour_id |-> 1, embedding_triggered |-> TRUE]}

\* statuses of a response of the ingestion endpoint that is not ok
EndpointErrors == {400, 422, 500}

\* main, the loop: the next file, or the summary after the last one
nextFile(b) ==
    IF b.k < Len(b.files)
    THEN [b EXCEPT !.pc = "transcribe", !.k = @ + 1, !.transcript = null]
    ELSE [b EXCEPT !.pc = "done", !.transcript = null]

\* a catch that also moves the file to the archive
catchFileArchives(b, message) ==
    nextFile([b EXCEPT
                !.log = Append(@, logResult(b.files[b.k], "error", NoResult,
                                            message)),
                !.inbox = @ \ {b.files[b.k]},
                !.archive = @ \cup {b.files[b.k]},
                !.results.failed = @ + 1])

\* processFile, the catch: an error row, and main counts the file as failed
catchFile(b, message) ==
    nextFile([b EXCEPT
                !.log = Append(@, logResult(b.files[b.k], "error", NoResult,
                                            message)),
                !.results.failed = @ + 1])

\* processFile after a successful ingestion: the success row, then
\* archiveFile, whose fs.renameSync moves the file or throws
afterIngest(b, result, renameOk) ==
    LET filename == b.files[b.k]
        b1 == [b EXCEPT
                 !.ingested = @ \cup {filename},
                 !.log = Append(@, logResult(filename, "success", result,
                                             <<>>))]
    IN  IF renameOk
        THEN nextFile([b1 EXCEPT
                         !.inbox = @ \ {filename},
                         !.archive = @ \cup {filename},
                         !.results.successful = @ + 1])
        ELSE catchFile(b1, <<"rename">>)

\* main up to the first await: the check of the key, the listing of the
\* folder, the filter, and the first file handed to processFile
BatchRun ==
    /\ batch.pc = "start"
    /\ \E hasKey \in BOOLEAN, listing \in Listings(batch.inbox) :
          LET files == audioFiles(listing)
          IN  batch' =
                IF ~hasKey THEN [batch EXCEPT !.pc = "exit"]
                ELSE IF Len(files) = 0 THEN [batch EXCEPT !.pc = "done"]
                ELSE [batch EXCEPT
                        !.pc = "transcribe", !.files = files, !.k = 1,
                        !.results = [total |-> Len(files), successful |-> 0,
                                     failed |-> 0]]
    /\ UNCHANGED <<pc, req, loc, resp, db, validation_errors,
                   qna_review_queue, validate_errors, nextId, stat>>

\* transcribeAudio returns the transcript, and ingestTranscript posts it,
\* or it throws
TranscribeReturn ==
    /\ batch.pc = "transcribe"
    /\ \/ \E transcript \in BatchTranscripts :
             batch' = [batch EXCEPT
                         !.pc = "ingest",
                         !.transcript = transcript,
                         !.transcribed = @ \cup {batch.files[batch.k]},
                         !.sent = Append(@, ingestPayload(transcript,
                                                batch.files[batch.k]))]
       \/ batch' = catchFile(batch, <<"transcription">>)
    /\ UNCHANGED <<pc, req, loc, resp, db, validation_errors,
                   qna_review_queue, validate_errors, nextId, stat>>

\* fetch returns a response that is ok, or one that is not, or throws
IngestReturn ==
    /\ batch.pc = "ingest"
    /\ \/ \E result \in EndpointResults, renameOk \in BOOLEAN :
             batch' = afterIngest(batch, result, renameOk)
       \/ \E status \in EndpointErrors :
             batch' = catchFile(batch, <<"HTTP", status>>)
       \/ batch' = catchFile(batch, <<"fetch">>)
    /\ UNCHANGED <<pc, req, loc, resp, db, validation_errors,
                   qna_review_queue, validate_errors, nextId, stat>>

NextBatch ==
    \/ BatchRun
    \/ TranscribeReturn
    \/ IngestReturn

\* the folder before a run: at most MaxFiles entries
InitBatch ==
    /\ pc = [r \in Reqs |-> "off"]
    /\ req = [r \in Reqs |-> NoReq]
    /\ loc = [r \in Reqs |-> NoLoc]
    /\ resp = [r \in Reqs |-> NoResp]
    /\ stat = [r \in Reqs |-> NoStat]
    /\ db = [tb \in ShapeTables |-> <<>>]
    /\ validation_errors = <<>>
    /\ qna_review_queue = <<>>
    /\ validate_errors = [tb \in ShapeTables |-> <<>>]
    /\ nextId = FirstNewId
    /\ \E inbox \in SUBSET InboxNames :
          /\ Cardinality(inbox) <= MaxFiles
          /\ batch = [NoBatch EXCEPT !.pc = "start", !.inbox = inbox]

\* one run of the batch script, with every outcome of the transcription,
\* of the ingestion endpoint and of the move to the archive
SpecBatch == InitBatch /\ [][NextBatch]_vars

\* ------------------------------------------------------------------------
\* Properties
\* ------------------------------------------------------------------------

Done(r) == pc[r] = "done"
Started(r) == pc[r] \notin {"idle", "off"}

\* the rows of a table that were inserted after the initial state
NewRows(tb) == {i \in 1..Len(db[tb]) : db[tb][i].id >= FirstNewId}

\* no row has been inserted into any of the four shape tables
NoShapeInsert == \A tb \in ShapeTables : NewRows(tb) = {}

\* the review-queue rows with a given identifier
QueueRows(id) ==
    {i \in 1..Len(qna_review_queue) : qna_review_queue[i].id = id}

ParkedCategories == {"low_confidence", "schema_validation", "missing_harbour"}

\* the request was classified by the fallback classifier
Fallback(r) == loc[r].detection.method = "gpt"

SchemaFailed(r) ==
    /\ stat[r].validate >= 1
    /\ schemaErrors(loc[r].tableType, loc[r].cleaned) # <<>>

ReservedPrefixes ==
    {<<W_QUESTIONC, T_QNA>>, <<W_HARBOURC, T_HARBOUR>>,
     <<W_WEATHERC, T_WEATHER>>, <<W_MEDIAC, T_MEDIA>>}

\* C4: a transcript whose trimmed, upper-cased working text begins with
\* QUESTION:, HARBOUR:, WEATHER: or MEDIA: is classified to the table of
\* that prefix with confidence 1.0 and method prefix, and the fallback
\* classifier is not called.
C4_PrefixClassification ==
    \A r \in Reqs :
        (Started(r) /\ loc[r].workingTranscript # null) =>
            \A p \in ReservedPrefixes :
                startsWith(toUpperCase(trim(loc[r].workingTranscript)), p[1])
                => /\ loc[r].detection.table = p[2]
                   /\ loc[r].detection.confidence = 100
                   /\ loc[r].detection.method = "prefix"
                   /\ stat[r].classify = 0

\* the word occurs in the text, in any letter case, at the start of a word
ContainsMarker(text, word) ==
    \E i \in 1..Len(text) :
        /\ i + Len(word) - 1 <= Len(text)
        /\ \A k \in 1..Len(word) : upperChar(text[i + k - 1]) = word[k]
        /\ i > 1 => ~IsWordChar(text[i - 1])

\* the first position at which the word occurs as a marker
FirstMarker(text, word) ==
    CHOOSE i \in 1..Len(text) :
        /\ IsAt(toUpperCase(text), i, word)
        /\ \A j \in 1..(i - 1) : ~IsAt(toUpperCase(text), j, word)

\* the strict prefixes of detectTableTypeByPrefix and their tables
StrictPrefixes == ReservedPrefixes \ {<<W_QUESTIONC, T_QNA>>}

HasStrictPrefix(text) ==
    \E p \in StrictPrefixes : startsWith(toUpperCase(trim(text)), p[1])

InsertedQna(r, tier) ==
    /\ loc[r].tableType = T_QNA
    /\ stat[r].inserted >= 1
    /\ loc[r].payload.tier = tier

\* the text contains "1." and, later, "2."
OrderedStepMarkers(text) ==
    \E i, j \in 1..(Len(text) - 1) :
        /\ i < j
        /\ text[i] = "1" /\ text[i + 1] = "."
        /\ text[j] = "2" /\ text[j + 1] = "."

\* C6: a Q&A record of tier pro is inserted only if its answer contains
\* "1." followed later by "2."; without that ordered pair the request never
\* reaches the harbour lookup or the insert.
C6_ProNeedsOrderedSteps ==
    \A r \in Reqs :
        (/\ loc[r].tableType = T_QNA
         /\ stat[r].validate >= 1
         /\ Text(loc[r].cleaned, "tier") = L_PRO
         /\ ~OrderedStepMarkers(loc[r].cleaned.answer))
        => (stat[r].verify = 0 /\ stat[r].insert = 0)

\* the number of positions of the trimmed text at which . ! or ? is followed
\* by whitespace or by the end of the text
TerminalPositions(text) ==
    LET tr == trim(text)
    IN  Cardinality({i \in 1..Len(tr) :
                        /\ tr[i] \in {".", "!", "?"}
                        /\ (i = Len(tr) \/ IsSpace(tr[i + 1]))})

\* C7: a Q&A record of tier free is inserted only if its answer has at most
\* 2 sentences, counted as the positions at which sentence-terminal
\* punctuation is followed by whitespace or by the end of the trimmed answer.
C7_FreeAtMostTwoSentences ==
    \A r \in Reqs :
        (InsertedQna(r, L_FREE) \/ (loc[r].tableType = T_QNA
                                     /\ pc[r] \in {"verify", "insert"}
                                     /\ Text(loc[r].cleaned, "tier") = L_FREE))
        => TerminalPositions(loc[r].cleaned.answer) <= 2

C7_Witness ==
    \E r \in Reqs :
        /\ Done(r)
        /\ InsertedQna(r, L_FREE)
        /\ resp[r].status = 200
        /\ TerminalPositions(loc[r].cleaned.answer) = 2

\* C8: for a Q&A transcript the tier the guardrails check and the tier of
\* the stored record are the tier the Tier Extractor produced, whatever tier
\* the Cleaner returned.
C8_TierIsDetectedTier ==
    \A r \in Reqs :
        (loc[r].tableType = T_QNA /\ stat[r].inserted >= 1)
        => /\ loc[r].payload.tier = loc[r].detectedTier
           /\ Text(loc[r].cleaned, "tier") = loc[r].detectedTier

\* the number of rows inserted into the four shape tables
InsertedRows ==
    Cardinality(NewRows(T_QNA)) + Cardinality(NewRows(T_HARBOUR))
    + Cardinality(NewRows(T_WEATHER)) + Cardinality(NewRows(T_MEDIA))

\* C9: a request is answered 200 if and only if it inserted exactly one row
\* into exactly one shape table; a request answered otherwise inserted none,
\* and no request inserts more than one.
C9_OkIffOneInsert ==
    /\ InsertedRows = stat[1].inserted + stat[2].inserted
    /\ \A r \in Reqs :
          /\ stat[r].inserted <= 1
          /\ Done(r) => (resp[r].status = 200 <=> stat[r].inserted = 1)
          /\ (Done(r) /\ resp[r].status = 200) =>
                \E i \in NewRows(resp[r].body.table_type) :
                    db[resp[r].body.table_type][i].id = resp[r].body.id

C9_Witness ==
    \E r \in Reqs :
        /\ Done(r)
        /\ resp[r].status = 200
        /\ InsertedRows = 1
        /\ loc[r].tableType = T_WEATHER

\* the request was answered after a parking
RespondedParked(r) == Done(r) /\ loc[r].category \in ParkedCategories

LookupMatches(r) ==
    {i \in 1..Len(db[T_HARBOUR]) :
        /\ db[T_HARBOUR][i].data.name # null
        /\ ilike(db[T_HARBOUR][i].data.name, loc[r].harbourValue)}

\* the harbour lookup of the request has returned
LookupReturned(r) ==
    /\ stat[r].verify >= 1
    /\ pc[r] # "verify"
    /\ loc[r].tableType \in ShapeTables \ {T_HARBOUR}

InsertAfterLookup(r) ==
    /\ loc[r].tableType \in ShapeTables \ {T_HARBOUR}
    /\ stat[r].insert >= 1
    /\ stat[r].verify >= 1
    /\ loc[r].harbourId # nullId

\* C12: for a Q&A, weather or media record the payload passed to the insert
\* holds harbour_id, equal to the identifier the harbour lookup of the
\* request returned, which is also the harbour_id of the 200 response.
C12_PayloadHoldsResolvedId ==
    \A r \in Reqs :
        InsertAfterLookup(r) =>
            /\ Has(loc[r].payload, "harbour_id")
            /\ loc[r].payload.harbour_id = loc[r].harbourId
            /\ (Done(r) /\ resp[r].status = 200) =>
                  resp[r].body.harbour_id = loc[r].harbourId

\* the cleaned record of the request passed the schema validation and
\* breaks the format rule of its tier
GuardrailViolated(r) ==
    /\ loc[r].tableType = T_QNA
    /\ stat[r].validate >= 1
    /\ loc[r].category # "schema_validation"
    /\ guardrail(loc[r].tableType, loc[r].cleaned) # "ok"

ParseFailed(r) == loc[r].category = "json_parse_error"

ClassifierFailed(r) ==
    /\ stat[r].classify = 1
    /\ pc[r] # "classify"
    /\ loc[r].detection = NoDetection

InsertFailed(r) == loc[r].category = "db_insert_error"

C17_CriticalEntriesCarryPayload ==
    \A i \in 1..Len(validation_errors) :
        validation_errors[i].level = "critical" =>
            /\ validation_errors[i].attempted_payload # null
            /\ validation_errors[i].attempted_payload # <<>>

\* the rows of a table whose embedding column has been written
EmbeddedRows(tb) == {i \in 1..Len(db[tb]) : db[tb][i].embedding}

\* C18: the embedding is requested, and the embedding column updated, only
\* after the shape-table insert of the same request has succeeded and only
\* for Q&A and media records; nothing is embedded for a harbour or weather
\* record or on a path that ends in an error response.
C18_EmbeddingOnlyAfterInsert ==
    /\ EmbeddedRows(T_HARBOUR) = {}
    /\ EmbeddedRows(T_WEATHER) = {}
    /\ \A r \in Reqs :
          /\ stat[r].embed >= 1 =>
                /\ stat[r].inserted = 1
                /\ loc[r].tableType \in {T_QNA, T_MEDIA}
                /\ loc[r].category = "none"
                /\ \E i \in NewRows(loc[r].tableType) :
                      db[loc[r].tableType][i].id = loc[r].dataId
          /\ stat[r].update >= 1 => stat[r].embed >= 1
          /\ loc[r].tableType \in {T_HARBOUR, T_WEATHER} =>
                stat[r].embed = 0 /\ stat[r].update = 0
          /\ (Done(r) /\ resp[r].status # 200) =>
                stat[r].embed = 0 /\ stat[r].update = 0
    /\ \A tb \in {T_QNA, T_MEDIA} :
          \A i \in EmbeddedRows(tb) :
              \E r \in Reqs :
                  /\ loc[r].tableType = tb
                  /\ loc[r].dataId = db[tb][i].id
                  /\ stat[r].update = 1

\* a media record with a description, inserted and embedded
C18_Witness ==
    \E r \in Reqs :
        /\ Done(r)
        /\ loc[r].tableType = T_MEDIA
        /\ stat[r].inserted = 1
        /\ stat[r].update = 1
        /\ EmbeddedRows(T_MEDIA) # {}
        /\ resp[r].body.embedding_triggered

\* the row the request inserted
InsertedRow(r) ==
    LET tb == loc[r].tableType
    IN  db[tb][CHOOSE i \in NewRows(tb) : db[tb][i].id = loc[r].dataId]

\* the request asked for an embedding and the embedding column of its row
\* was not written: the embedding request or the update failed
EmbeddingFailed(r) ==
    /\ Done(r)
    /\ stat[r].embed = 1
    /\ stat[r].inserted = 1
    /\ ~InsertedRow(r).embedding

\* C19: a failure of the embedding request or of the update of the
\* embedding column is not fatal: the response is 200 with
\* embedding_triggered false, the inserted row is still there with the data
\* it was inserted with, and no review-queue entry is created.
C19_EmbeddingFailureIsNotFatal ==
    \A r \in Reqs :
        /\ (Done(r) /\ stat[r].embed = 1) =>
              /\ resp[r].status = 200
              /\ InsertedRows = 1
              /\ InsertedRow(r).data = loc[r].payload
              /\ resp[r].body.embedding_triggered = InsertedRow(r).embedding
        /\ EmbeddingFailed(r) =>
              /\ ~resp[r].body.embedding_triggered
              /\ stat[r].park = 0
              /\ qna_review_queue = <<>>
              /\ validation_errors = <<>>

\* an embedding update that failed, answered 200
C19_Witness ==
    \E r \in Reqs :
        /\ EmbeddingFailed(r)
        /\ stat[r].update = 1
        /\ resp[r].status = 200
        /\ ~resp[r].body.embedding_triggered

\* a step keeps every row of every shape table, with its id and its data,
\* and changes no embedding column but that of the row of request r, which
\* it can only set
KeepsRecords(r) ==
    \A tb \in ShapeTables :
        /\ Len(db'[tb]) = Len(db[tb])
        /\ \A i \in 1..Len(db[tb]) :
              /\ db'[tb][i].id = db[tb][i].id
              /\ db'[tb][i].data = db[tb][i].data
              /\ db'[tb][i].embedding # db[tb][i].embedding =>
                    /\ tb = loc[r].tableType
                    /\ db[tb][i].id = loc[r].dataId
                    /\ db'[tb][i].embedding

C21_HarbourRecordsExempt ==
    \A r \in Reqs :
        loc[r].tableType = T_HARBOUR =>
            /\ stat[r].verify = 0
            /\ pc[r] # "verify"
            /\ loc[r].harbourId = nullId
            /\ loc[r].category # "missing_harbour"
            /\ (Done(r) /\ resp[r].status = 200) =>
                  /\ resp[r].body.harbour_id = nullId
                  /\ stat[r].inserted = 1

\* a harbours record inserted into an empty registry, with a harbour name
\* in the request
C21_Witness ==
    \E r \in Reqs :
        /\ Done(r)
        /\ resp[r].status = 200
        /\ loc[r].tableType = T_HARBOUR
        /\ Len(db[T_HARBOUR]) = 1
        /\ NewRows(T_HARBOUR) = {1}
        /\ req[r].harbour_name = N_KIONI


\* the transcript of the request is absent, empty or only white space
BlankTranscript(r) ==
    \/ req[r].transcript = null
    \/ trim(req[r].transcript) = <<>>

\* C22: a POST request whose transcript is absent or blank is answered 400
\* at once: no error-log entry and no review-queue entry is written, no
\* collaborator is called and nothing is inserted.
C22_BlankTranscriptRejected ==
    \A r \in Reqs :
        (Started(r) /\ req[r].method = "POST" /\ BlankTranscript(r)) =>
            /\ Done(r)
            /\ resp[r].status = 400
            /\ resp[r].body = [error |-> "Missing required field: transcript"]
            /\ stat[r] = NoStat
            /\ loc[r] = NoLoc
            /\ validation_errors = <<>>
            /\ qna_review_queue = <<>>
            /\ NoShapeInsert

C22_Witness ==
    \E r \in Reqs :
        /\ Done(r) /\ req[r].method = "POST" /\ req[r].transcript = TR_Blank
        /\ resp[r].status = 400


\* the calls a request has made of each stage before the embedding step
StageCalls(r) ==
    <<stat[r].classify, stat[r].clean, stat[r].validate, stat[r].verify,
      stat[r].insert>>

\* a stage of the request has failed and the request was routed to its
\* error response
StageFailed(r) == loc[r].category # "none"

\* the harbour lookup of the request returned no identifier
LookupFailed(r) == LookupReturned(r) /\ loc[r].harbourId = nullId

\* the shape-table insert of the request returned without a row
InsertReturnedError(r) ==
    stat[r].insert >= 1 /\ pc[r] # "insert" /\ stat[r].inserted = 0

\* C23: in every request the fallback classifier, the Cleaner, the schema
\* validation, the harbour lookup and the shape-table insert each run at
\* most once and in this order; a failure of any of them routes the request
\* to its error response, after which none of them and no embedding step
\* runs any more.
C23_StagesOnceAndFailClosed ==
    /\ [](\A r \in Reqs :
            /\ \A i \in 1..5 : StageCalls(r)[i] <= 1
            /\ stat[r].inserted <= stat[r].insert
            /\ stat[r].embed <= stat[r].inserted
            /\ stat[r].insert = 1 => stat[r].validate = 1
            /\ stat[r].verify = 1 => stat[r].validate = 1
            /\ stat[r].validate = 1 => stat[r].clean = 1
            /\ (stat[r].clean = 1 /\ stat[r].classify = 1) =>
                   pc[r] # "classify"
            /\ ( \/ ClassifierFailed(r)
                 \/ ParseFailed(r)
                 \/ SchemaFailed(r)
                 \/ LookupFailed(r)
                 \/ InsertReturnedError(r) ) => StageFailed(r)
            /\ StageFailed(r) => pc[r] \in {"park", "log", "done"}
            /\ (StageFailed(r) /\ Done(r)) => resp[r].status \in {422, 500})
    /\ [][\A r \in Reqs :
            StageFailed(r) =>
                /\ StageCalls(r)' = StageCalls(r)
                /\ stat'[r].embed = stat[r].embed
                /\ stat'[r].inserted = stat[r].inserted
                /\ StageFailed(r)']_vars

\* a request whose harbour lookup failed after the classifier, the Cleaner
\* and the validation each ran once, and that ended without an insert
C23_Witness ==
    \E r \in Reqs :
        /\ Done(r) /\ LookupFailed(r)
        /\ StageCalls(r) = <<1, 1, 1, 1, 0>>
        /\ resp[r].status = 422


\* the fallback classifier of the request named, with a confidence at or
\* above the threshold, a table that is none of the four shape tables
NamedUnknownShape(r) ==
    /\ Fallback(r)
    /\ pc[r] # "classify"
    /\ loc[r].detection.table \notin ShapeTables
    /\ loc[r].detection.confidence >= MinConfidence

\* the shape tables that hold a row inserted by a request
TablesWithNewRows == {tb \in ShapeTables : NewRows(tb) # {}}

\* C24: a request that inserts a record inserts it into exactly one of the
\* four shape tables, the one of its detected shape; a request whose
\* fallback classifier names a table outside the four with a confidence of
\* at least 0.90 ends in a 500 response without calling the Cleaner and
\* without an insert into any table.
C24_OneShapeTablePerRecord ==
    \A r \in Reqs :
        /\ stat[r].insert >= 1 => loc[r].tableType \in ShapeTables
        /\ stat[r].inserted >= 1 => TablesWithNewRows = {loc[r].tableType}
        /\ NamedUnknownShape(r) =>
              /\ pc[r] \in {"log", "done"}
              /\ loc[r].category = "unhandled_exception"
              /\ stat[r].clean = 0
              /\ stat[r].insert = 0
              /\ NoShapeInsert
              /\ Done(r) => resp[r].status = 500

C24_Witness ==
    \E r \in Reqs :
        /\ Done(r) /\ NamedUnknownShape(r)
        /\ loc[r].detection.table = "harbour_reviews"
        /\ loc[r].detection.confidence = 100
        /\ resp[r].status = 500


\* the tables whose rows have a tier column
TierTables == {T_QNA, T_MEDIA}

\* C25: the tier of every Q&A or media row a request inserts, and of every
\* payload passed to the insert of such a row, is one of the lowercase
\* values free, pro and exclusive.
C25_StoredTierIsLowercaseEnum ==
    /\ \A tb \in TierTables : \A i \in NewRows(tb) :
           db[tb][i].data.tier \in TierEnum
    /\ \A r \in Reqs :
           (stat[r].insert >= 1 /\ loc[r].tableType \in TierTables) =>
               loc[r].payload.tier \in TierEnum

\* a media record without a tier, dictated under an upper-case TIER
\* directive, is stored with the default tier
C25_Witness ==
    \E r \in Reqs :
        /\ Done(r) /\ resp[r].status = 200
        /\ loc[r].tableType = T_MEDIA
        /\ req[r].transcript = TR_TierMedia
        /\ loc[r].detectedTier = L_EXCLUSIVE
        /\ ~Has(loc[r].cleaned, "tier")
        /\ InsertedRow(r).data.tier = L_FREE


\* the transcripts received by the requests that have started
ReceivedTranscripts == {req[r].transcript : r \in {q \in Reqs : Started(q)}}

\* the transcript of the request starts with a TIER directive
HasTierDirective(r) ==
    /\ req[r].transcript # null
    /\ tierMatch(req[r].transcript) # <<>>

\* C26: the transcript of a request does not change once received; every
\* error-log row and every review-queue row holds a transcript exactly as
\* received, TIER directive included, and the working text of the request
\* is the received transcript with its leading TIER directive removed.
C26_ReceivedTranscriptKept ==
    /\ [](/\ \A i \in 1..Len(validation_errors) :
               validation_errors[i].transcript \in ReceivedTranscripts
          /\ \A i \in 1..Len(qna_review_queue) :
               qna_review_queue[i].row.transcript \in ReceivedTranscripts
          /\ \A r \in Reqs :
               (Started(r) /\ loc[r] # NoLoc) =>
                   /\ loc[r].workingTranscript =
                          detectTier(req[r].transcript).cleanedTranscript
                   /\ HasTierDirective(r) =>
                          /\ Len(loc[r].workingTranscript)
                                 < Len(req[r].transcript)
                          /\ ~IsAt(loc[r].workingTranscript, 1, W_TIERC)
                   /\ ~HasTierDirective(r) =>
                          loc[r].workingTranscript = req[r].transcript)
    /\ [][\A r \in Reqs : Started(r) => req'[r] = req[r]]_vars

\* a request with a TIER directive ended with an error-log row and a
\* review-queue row that hold the transcript with the directive
C26_Witness ==
    \E r \in Reqs :
        /\ Done(r) /\ HasTierDirective(r)
        /\ loc[r].workingTranscript # req[r].transcript
        /\ Len(validation_errors) = 1
        /\ validation_errors[1].transcript = req[r].transcript
        /\ Len(qna_review_queue) = 1
        /\ qna_review_queue[1].row.transcript = req[r].transcript


\* the identifiers of the harbours in the registry
RegistryNow == {db[T_HARBOUR][i].id : i \in 1..Len(db[T_HARBOUR])}

\* the tables whose rows hold the identifier of their harbour
ReferencingTables == {T_WEATHER, T_MEDIA}

Processed ==
    {batch.files[i] :
        i \in {j \in 1..Len(batch.files) :
                  j < batch.k \/ (j = batch.k /\ batch.pc = "done")}}

\* the rows of batch_log.csv for a file, with a given status
LogRowsOf(filename, status) ==
    {i \in 1..Len(batch.log) :
        batch.log[i].filename = filename /\ batch.log[i].status = status}

\* the transcription and the ingestion of the file both succeeded
BothSucceeded(filename) ==
    filename \in batch.transcribed /\ filename \in batch.ingested

\* C28: a file is in the archive only if its transcription and its
\* ingestion both succeeded, and then it has left voice_inbox; a file
\* whose transcription or ingestion failed stays in voice_inbox, is not in
\* the archive and has an error row in the log.
C28_ArchivedOnlyAfterSuccess ==
    /\ \A f \in batch.archive : BothSucceeded(f) /\ f \notin batch.inbox
    /\ \A f \in Processed :
          ~BothSucceeded(f) =>
              /\ f \in batch.inbox
              /\ f \notin batch.archive
              /\ LogRowsOf(f, "error") # {}
              /\ LogRowsOf(f, "success") = {}

\* a run that ended with one file archived and another, whose
\* transcription failed, left in voice_inbox with its error row
C28_Witness ==
    /\ batch.pc = "done"
    /\ \E f, g \in Processed :
          /\ f \in batch.archive /\ BothSucceeded(f)
          /\ g \notin batch.transcribed /\ g \in batch.inbox
          /\ LogRowsOf(g, "error") # {}


\* the rows of batch_log.csv for a file
LogRowsFor(filename) ==
    {i \in 1..Len(batch.log) : batch.log[i].filename = filename}

C30_ViolationListIsOwn ==
    /\ \A i \in 1..Len(validation_errors) :
          LET row == validation_errors[i]
          IN  row.error_type = "schema_validation" =>
                  row.details.errors =
                      schemaErrors(row.details.table, row.attempted_payload)
    /\ \A r \in Reqs :
          (Done(r) /\ loc[r].category = "schema_validation") =>
              resp[r].body.details =
                  schemaErrors(loc[r].tableType, loc[r].cleaned)


\* C31: the confidence of every classification that passed the gate, that
\* is, of every request whose Cleaner was called, is a number between 0 and
\* 1 (0 and 100 hundredths); a reply of the fallback classifier without
\* such a confidence does not reach the Cleaner.
C31_GatedConfidenceInUnitInterval ==
    \A r \in Reqs :
        stat[r].clean >= 1 =>
            /\ loc[r].detection.confidence # NaN
            /\ loc[r].detection.confidence \in 0..100


\* C32: the keys of every payload passed to the insert, the tracking column
\* included, and of every row inserted are columns of the table of its
\* shape.
C32_PayloadKeysAreColumns ==
    /\ \A r \in Reqs :
          stat[r].insert >= 1 =>
              DOMAIN loc[r].payload \subseteq Columns(loc[r].tableType)
    /\ \A tb \in ShapeTables : \A i \in NewRows(tb) :
          DOMAIN db[tb][i].data \subseteq Columns(tb)

\* a Q&A row was inserted with the tracking column, and its keys are the
\* seven of the transformer and source
C32_Witness ==
    \E r \in Reqs :
        /\ Done(r) /\ resp[r].status = 200 /\ loc[r].tableType = T_QNA
        /\ DOMAIN InsertedRow(r).data =
               {"harbour_name", "question", "answer", "category", "tags",
                "tier", "notes", "source"}


\* a field of the cleaning prompt is present in a cleaned record with a value
FieldPresent(cleaned, f) ==
    /\ f.sub = "top" \/ Has(cleaned, f.sub)
    /\ Has(holder(cleaned, f), f.name)
    /\ f.kind \in {"s", "text", "toArray"} =>
           holder(cleaned, f)[f.name] # null

\* the column of the payload holds the value of the field, formatted as the
\* transformer formats a value of its kind
FieldStored(cleaned, f, payload) ==
    LET v == holder(cleaned, f)[f.name]
    IN  /\ f.column \in DOMAIN payload
        /\ CASE f.kind = "s" -> payload[f.column] = s(v)
             [] f.kind = "text" -> payload[f.column] = v
             [] f.kind = "toArray" -> payload[f.column] = <<s(v)>>
             [] f.kind = "number" -> payload[f.column] = v
             [] f.kind = "array" -> payload[f.column] = v

\* the column of every prompt field is a key of the payload
FieldColumnsInPayload(r) ==
    \A f \in promptFields(loc[r].tableType) :
        f.column \in DOMAIN loc[r].payload

\* C33: at every insert, each field of the cleaning prompt of the table that
\* is present in the cleaned record is in the payload, under its column, with
\* its value.
C33_DeclaredFieldsStored ==
    \A r \in Reqs :
        stat[r].insert >= 1 =>
            \A f \in promptFields(loc[r].tableType) :
                FieldPresent(loc[r].cleaned, f) =>
                    FieldStored(loc[r].cleaned, f, loc[r].payload)

\* the part of C33 that holds: no prompt field lacks a column in the payload,
\* and every present field other than a number 0 is stored with its value
C33_ColumnsCovered ==
    \A r \in Reqs :
        stat[r].insert >= 1 =>
            /\ FieldColumnsInPayload(r)
            /\ \A f \in promptFields(loc[r].tableType) :
                   /\ FieldPresent(loc[r].cleaned, f)
                   /\ ~(f.kind = "number"
                        /\ holder(loc[r].cleaned, f)[f.name] = 0)
                   => FieldStored(loc[r].cleaned, f, loc[r].payload)


\* the names a tracking column has had in the handler and its predecessor
TrackingColumns == {"source", "source_row_id"}

\* the payload of a request holds the row identifier of the request as its
\* tracking column
Tracked(r) ==
    /\ "source" \in DOMAIN loc[r].payload
    /\ loc[r].payload.source = req[r].row_id

\* C34: the payload of an insert, and the row inserted, hold the row
\* identifier of the request as tracking column exactly when the request
\* supplied one and the table is harbour_questions; the payloads of the other
\* three tables hold no tracking column.
C34_TrackingColumnOnlyForQna ==
    \A r \in Reqs :
        stat[r].insert >= 1 =>
            /\ Tracked(r) <=>
                   (Truthy(req[r].row_id) /\ loc[r].tableType = T_QNA)
            /\ ~Tracked(r) => DOMAIN loc[r].payload \cap TrackingColumns = {}
            /\ (Done(r) /\ resp[r].status = 200) =>
                   DOMAIN InsertedRow(r).data = DOMAIN loc[r].payload

\* a request that supplied a row identifier was classified as another table
\* than harbour_questions and its row was stored without a tracking column
C34_Witness ==
    \E r \in Reqs :
        /\ Done(r) /\ resp[r].status = 200
        /\ loc[r].tableType \in ShapeTables \ {T_QNA}
        /\ Truthy(req[r].row_id)
        /\ DOMAIN InsertedRow(r).data \cap TrackingColumns = {}

\* a Q&A request that supplied a row identifier stored it as the source of
\* its row
C34_QnaTracked ==
    \E r \in Reqs :
        /\ Done(r) /\ resp[r].status = 200 /\ loc[r].tableType = T_QNA
        /\ Truthy(req[r].row_id)
        /\ InsertedRow(r).data.source = req[r].row_id

\* the numeric fields of a table: coordinates and wind thresholds
numberFields(tableType) ==
    {f \in promptFields(tableType) : f.kind = "number"}

\* C35: at every insert, each numeric field that is present in the cleaned
\* record, 0 included, is in the payload unchanged, and a numeric column of
\* the payload is null only if its field is absent from the cleaned record.
C35_PresentNumbersStoredUnchanged ==
    \A r \in Reqs :
        stat[r].insert >= 1 =>
            \A f \in numberFields(loc[r].tableType) :
                /\ FieldPresent(loc[r].cleaned, f) =>
                       loc[r].payload[f.column] =
                           holder(loc[r].cleaned, f)[f.name]
                /\ loc[r].payload[f.column] = nullNum =>
                       ~FieldPresent(loc[r].cleaned, f)

\* the part of C35 that holds: present numbers other than 0 are unchanged
C35_NonZeroNumbersStoredUnchanged ==
    \A r \in Reqs :
        stat[r].insert >= 1 =>
            \A f \in numberFields(loc[r].tableType) :
                /\ FieldPresent(loc[r].cleaned, f)
                /\ holder(loc[r].cleaned, f)[f.name] # 0
                => loc[r].payload[f.column] =
                       holder(loc[r].cleaned, f)[f.name]


\* the three words of a TIER directive
DirectiveWords == {W_FREE, W_PRO, W_EXCLUSIVE}

\* two texts are equal up to the case of their letters
SameLetters(a, b) == toUpperCase(a) = toUpperCase(b)

\* the text begins with TIER: in any letter case
LeadsWithKeyword(t) ==
    /\ Len(t) >= Len(W_TIERC)
    /\ SameLetters(SubSeq(t, 1, Len(W_TIERC)), W_TIERC)

\* after TIER: the text goes on with k characters of whitespace and the
\* word w, in any letter case
LeadsWith(t, k, w) ==
    /\ Len(t) >= Len(W_TIERC) + k + Len(w)
    /\ \A i \in Len(W_TIERC) + 1 .. Len(W_TIERC) + k : t[i] \in SpaceChars
    /\ SameLetters(SubSeq(t, Len(W_TIERC) + k + 1,
                          Len(W_TIERC) + k + Len(w)), w)

\* the leading directives of a text, each as <<k, w>>: at most one
Directives(t) ==
    IF LeadsWithKeyword(t)
    THEN {d \in (0..Len(t) - Len(W_TIERC)) \X DirectiveWords :
             LeadsWith(t, d[1], d[2])}
    ELSE {}

\* wt is what is left of the text after the directive <<k, w>>, the dots and
\* whitespace that follow it and the whitespace at the end of the text
DirectiveRemoved(t, d, wt) ==
    LET from == Len(W_TIERC) + d[1] + Len(d[2]) + 1
        fill == SpaceChars \cup {"."}
    IN  \E j \in from..Len(t) + 1 :
            /\ \A i \in from..j - 1 : t[i] \in fill
            /\ j <= Len(t) => t[j] \notin fill
            /\ wt = trimEnd(SubSeq(t, j, Len(t)))

\* C36: the tier of a request that passed the input check is free, pro or
\* exclusive; when its transcript begins with a TIER directive, in any letter
\* case, the tier is the word of the directive in lower case and the working
\* text is the transcript without the directive; otherwise the tier is pro
\* and the working text is the transcript.
C36_DetectTier ==
    \A r \in Reqs :
        loc[r].detectedTier # null =>
            LET t == req[r].transcript
            IN  /\ loc[r].detectedTier \in TierEnum
                /\ Cardinality(Directives(t)) <= 1
                /\ \A d \in Directives(t) :
                       /\ loc[r].detectedTier = toLowerCase(d[2])
                       /\ DirectiveRemoved(t, d, loc[r].workingTranscript)
                /\ Directives(t) = {} =>
                       /\ loc[r].detectedTier = L_PRO
                       /\ loc[r].workingTranscript = t

\* a transcript whose directive is written in lower case, followed by a dot
\* and by text, was given the tier exclusive and lost the directive
C36_Witness ==
    \E r \in Reqs :
        /\ req[r].transcript # null
        /\ startsWith(req[r].transcript, toLowerCase(W_TIERC))
        /\ loc[r].detectedTier = L_EXCLUSIVE
        /\ loc[r].workingTranscript = X_TEXT


\* the transcript of the request is a TIER directive and nothing else but
\* dots and whitespace
OnlyTierDirective(r) ==
    /\ req[r].transcript # null
    /\ \E d \in Directives(req[r].transcript) :
           DirectiveRemoved(req[r].transcript, d, <<>>)

\* C37: a POST request whose transcript is only a TIER directive is not
\* answered 400: its working text is empty, no prefix or keyword matches it,
\* and the fallback classifier is called for it.
C37_TierOnlyTranscriptClassified ==
    \A r \in Reqs :
        (Started(r) /\ req[r].method = "POST" /\ OnlyTierDirective(r)) =>
            /\ resp[r].status # 400
            /\ loc[r].workingTranscript = <<>>
            /\ stat[r].classify = 1
            /\ pc[r] # "classify" => loc[r].detection.method \in {"none", "gpt"}

\* the fallback classifier has answered for a transcript that is only a TIER
\* directive, and the request went on to the Cleaner with empty working text
C37_Witness ==
    \E r \in Reqs :
        /\ OnlyTierDirective(r)
        /\ loc[r].workingTranscript = <<>>
        /\ loc[r].detection.method = "gpt"
        /\ stat[r].clean >= 1


\* the harbour lookup of the request returned no identifier although exactly
\* one harbour of the registry matches the name: the store failed
LookupErrored(r) ==
    /\ LookupReturned(r)
    /\ Cardinality(LookupMatches(r)) = 1
    /\ loc[r].harbourId = nullId

StatusOf(category) ==
    IF category \in {"db_insert_error", "unhandled_exception"}
    THEN 500
    ELSE 422

\* parkInReviewQueue of the request returns in this step: whether or not
\* the row was inserted, the request goes on to the error log with the
\* same category, no shape table changes and nothing is responded yet; the
\* identifier is null exactly when no row was inserted
ParkSwallowed(r) ==
    (pc[r] = "park" /\ pc'[r] # "park") =>
        /\ pc'[r] = "log"
        /\ loc'[r].category = loc[r].category
        /\ stat'[r].log = stat[r].log + 1
        /\ db' = db
        /\ validation_errors' = validation_errors
        /\ resp'[r] = NoResp
        /\ (loc'[r].queueId = nullId) <=>
               (qna_review_queue' = qna_review_queue)

\* logValidationError of the request returns in this step: whether or not
\* the row was inserted, the response of the category is sent, with the
\* parking identifier the parking returned, and no shape table changes
LogSwallowed(r) ==
    (pc[r] = "log" /\ pc'[r] # "log") =>
        /\ pc'[r] = "done"
        /\ resp'[r].status = StatusOf(loc[r].category)
        /\ loc[r].category \in ParkedCategories =>
               resp'[r].body.parked_in_queue = loc[r].queueId
        /\ db' = db
        /\ qna_review_queue' = qna_review_queue
        /\ stat'[r].insert = stat[r].insert

\* C39: a failed insert into the error log or the review queue is swallowed:
\* the request goes on as after a successful one, to the same response
\* status, no shape-table row is inserted or lost, and a failed parking
\* shows only as a null parking identifier.
C39_LogAndParkFailuresSwallowed ==
    [][\A r \in Reqs : ParkSwallowed(r) /\ LogSwallowed(r)]_vars

\* a request whose parking and whose logging both failed was answered 422
\* with a null parking identifier, and nothing was stored
C39_Witness ==
    \E r \in Reqs :
        /\ Done(r)
        /\ loc[r].category = "schema_validation"
        /\ stat[r].park = 1 /\ stat[r].parked = 0
        /\ stat[r].log = 1 /\ stat[r].logged = 0
        /\ resp[r].status = 422
        /\ resp[r].body.parked_in_queue = nullId
        /\ qna_review_queue = <<>> /\ validation_errors = <<>>
        /\ NoShapeInsert

====
